---- MODULE Spec2Model ----
(***************************************************************************)
(* Consolidation of the per-entity transformed tables of a veterinary      *)
(* practice into one medical history, as done by                           *)
(* HCS/scripts/finale/consolidate_medical_records.py, alone or launched    *)
(* by HCS/final_processing.py.                                             *)
(*                                                                         *)
(* Spec is the run of the consolidation script on tables with varied       *)
(* records; FilterSpec is the same run with varied allow-list folders;     *)
(* FaultSpec is the run of either command with faulty tables, a used       *)
(* output directory and writes that may fail; CleanSpec applies the text   *)
(* sanitizer to short texts; PipelineSpec is the run of                    *)
(* HCS/process_client_data.py, which produces the transformed tables,      *)
(* with scripts that may fail.                                             *)
(*                                                                         *)
(* Text is a sequence of Unicode code points (32 is the space, 10 the      *)
(* newline, 97 'a', 98 'b', 61 '=', 60 '<').  A timestamp is a record      *)
(* [day, time], ordered by day and then by time of day.                    *)
(***************************************************************************)
EXTENDS Integers, Sequences, FiniteSets, TLC

VARIABLES pc, entities, pets_filter, ent_idx, tables, all_dataframes,
          consolidated_records, final_df, batch_files, summary, result,
          scenario, command, argv, filter_folder, output_dir, exit_code,
          raw_text, cell_limit, cleaned, recleaned,
          pipeline_steps, generation, step_idx, steps_run, pipeline_results

vars == <<pc, entities, pets_filter, ent_idx, tables, all_dataframes,
          consolidated_records, final_df, batch_files, summary, result,
          scenario, command, argv, filter_folder, output_dir, exit_code,
          raw_text, cell_limit, cleaned, recleaned,
          pipeline_steps, generation, step_idx, steps_run, pipeline_results>>

\* What is fixed when a command is launched: the kind of inputs it finds,
\* the command itself, and the options given after the client: none, or
\* <<n>> for --batch-size n.
launch == <<scenario, command, argv>>

\* The variables of the runs of the sanitizer alone.
sanitizer == <<raw_text, cell_limit, cleaned, recleaned>>

\* The variables of the runs of process_client_data: the configured steps
\* and the generation directory of each selected entity, the step at hand,
\* the scripts run so far and what _execute_pipeline has returned.
pipelines == <<pipeline_steps, generation, step_idx, steps_run,
               pipeline_results>>

(***************************************************************************)
(* Bounds of the model.                                                    *)
(***************************************************************************)
\* Rows read from all the entity tables of one run, at most.
MaxRows == 3
\* Records per batch (5000 in the source, scaled to the rows of the model).
batch_size == 2
\* Files in an allow-list folder, at most.
MaxFilterFiles == 2
\* Rows read from all the entity tables of a run with varied allow-lists.
MaxFilterRows == 2
\* Rows read from all the entity tables of a run with faulty tables.
MaxFaultRows == 3
\* Length of the texts handed to the sanitizer alone, at most.
MaxTextLen == 3
\* A cell limit in the reach of these texts (the source has ExcelCellLimit).
MaxCell == 2

\* The length of a cell that Excel accepts.
ExcelCellLimit == 32767

(***************************************************************************)
(* Generic helpers on sequences.                                           *)
(***************************************************************************)
RECURSIVE Flatten(_)
Flatten(ss) == IF ss = <<>> THEN <<>> ELSE Head(ss) \o Flatten(Tail(ss))

RECURSIVE SumSeq(_)
SumSeq(s) == IF s = <<>> THEN 0 ELSE Head(s) + SumSeq(Tail(s))

Range(s) == {s[i] : i \in 1..Len(s)}

Min2(a, b) == IF a <= b THEN a ELSE b

\* The orderings of the elements of S, as sequences.
RECURSIVE Orderings(_)
Orderings(S) ==
    IF S = {} THEN {<<>>}
    ELSE UNION {{<<x>> \o q : q \in Orderings(S \ {x})} : x \in S}

\* The permutations of 1..n.
Perms(n) == Orderings(1..n)

Permuted(s, p) == [i \in 1..Len(s) |-> s[p[i]]]

\* All sequences over S of length at most n.
SeqsUpTo(S, n) == UNION {[1..k -> S] : k \in 0..n}

(***************************************************************************)
(* clean_text_for_excel: the text sanitizer.                               *)
(***************************************************************************)
\* re.sub(r'[class]', repl, text): every character of the class is replaced.
RECURSIVE ReSubClass(_, _, _)
ReSubClass(text, class, repl) ==
    IF text = <<>> THEN <<>>
    ELSE (IF Head(text) \in class THEN repl ELSE <<Head(text)>>)
         \o ReSubClass(Tail(text), class, repl)

\* [\x00-\x1f\x7f-\x9f]
ControlChars == (0..31) \cup (127..159)
\* The six emoji and symbol ranges, removed one after the other.
EmojiChars == (128512..128591) \cup (127744..128511) \cup (128640..128767)
              \cup (127462..127487) \cup (9728..9983) \cup (9984..10175)
\* [<>&"']
XmlChars == {60, 62, 38, 34, 39}
\* [\u200B-\u200F\u2028-\u202F\u205F-\u206F]
UnicodeSpaces == (8203..8207) \cup (8232..8239) \cup (8287..8303)
\* [\x20-\x7E\u00C0-\u00FF\u0100-\u017F], the characters that are kept.
KeptChars == (32..126) \cup (192..255) \cup (256..383)
\* [=+\-@]
FormulaChars == {61, 43, 45, 64}
\* What \s and str.strip() take for whitespace.
WhitespaceChars == {9, 10, 11, 12, 13, 28, 29, 30, 31, 32, 133, 160, 5760}
                   \cup (8192..8202) \cup {8232, 8233, 8239, 8287, 12288}

\* re.sub(r'^[=+\-@]', '', text): one formula character at the very start.
StripFormulaPrefix(text) ==
    IF text # <<>> /\ Head(text) \in FormulaChars THEN Tail(text) ELSE text

\* re.sub(r'\s+', ' ', text): every run of whitespace becomes one space.
RECURSIVE CollapseWhitespace(_)
CollapseWhitespace(text) ==
    IF text = <<>> THEN <<>>
    ELSE IF Head(text) \in WhitespaceChars
         THEN IF Len(text) > 1 /\ text[2] \in WhitespaceChars
              THEN CollapseWhitespace(Tail(text))
              ELSE <<32>> \o CollapseWhitespace(Tail(text))
         ELSE <<Head(text)>> \o CollapseWhitespace(Tail(text))

RECURSIVE LStrip(_)
LStrip(text) ==
    IF text # <<>> /\ Head(text) \in WhitespaceChars THEN LStrip(Tail(text))
    ELSE text

RECURSIVE RStrip(_)
RStrip(text) ==
    IF text # <<>> /\ text[Len(text)] \in WhitespaceChars
    THEN RStrip(SubSeq(text, 1, Len(text) - 1))
    ELSE text

\* str.strip()
Strip(text) == RStrip(LStrip(text))

\* text[:limit]
Truncate(text, limit) ==
    IF Len(text) > limit THEN SubSeq(text, 1, limit) ELSE text

CleanText(text, limit) ==
    IF text = <<>> THEN text
    ELSE LET t1 == ReSubClass(text, ControlChars, <<32>>)
             t2 == ReSubClass(t1, EmojiChars, <<>>)
             t3 == ReSubClass(t2, XmlChars, <<>>)
             t4 == ReSubClass(t3, UnicodeSpaces, <<>>)
             t5 == SelectSeq(t4, LAMBDA c : c \in KeptChars)
             t6 == StripFormulaPrefix(t5)
             t7 == Strip(CollapseWhitespace(t6))
         IN  Truncate(t7, limit)

clean_text_for_excel(text) == CleanText(text, ExcelCellLimit)

(***************************************************************************)
(* The inputs of a run: the client configuration, the allow-list folder    *)
(* and the transformed table of each entity.                               *)
(***************************************************************************)
Patients == {100, 200}

Fechas == {[day |-> 1, time |-> 9], [day |-> 1, time |-> 14],
           [day |-> 2, time |-> 9]}

\* 'a', '=b' and '< ' (which the sanitizer empties).
NoteValues == {<<97>>, <<61, 98>>, <<60, 32>>}

\* The rows of the transformed tables: on day 1 patient 100 has visits at
\* both times and with every note; the visits of day 2 and of patient 200
\* are at 09:00 with the note 'a'.
Rows == {r \in [id_mascota : Patients, fecha : Fechas, notas : NoteValues] :
            (r.id_mascota = 200 \/ r.fecha.day = 2)
                => (r.fecha.time = 9 /\ r.notas = <<97>>)}

\* The entity list used when the client has no configuration.
DefaultEntities == <<"Apuntes", "DatosdeControl", "Diagnosticos",
                     "Prescripciones", "Procedimientos", "Vacunas">>

\* What load_client_config may return: the default list, or a client's own.
ClientConfigs == {DefaultEntities,
                  <<"Procedimientos", "Apuntes">>}

\* The entities whose upstream pipeline has written a transformed table.
DataEntities == {"Apuntes", "DatosdeControl", "Procedimientos"}

NoFolder == [exists |-> FALSE, files |-> <<>>]

\* The allow-list folders of the model: none, or one file with patient 100.
FilterFolders == {NoFolder,
                  [exists |-> TRUE,
                   files |-> <<[xlsx |-> TRUE, readable |-> TRUE,
                                ids |-> {100}]>>]}

\* What a folder of allow-lists may hold: a file that is no .xlsx, a .xlsx
\* that cannot be read, and readable lists of patient ids.
AllowListFiles ==
    {[xlsx |-> FALSE, readable |-> FALSE, ids |-> {}],
     [xlsx |-> TRUE, readable |-> FALSE, ids |-> {}]}
    \cup {[xlsx |-> TRUE, readable |-> TRUE, ids |-> S] :
              S \in {{100}, {200}, {100, 200}}}

\* The folders of the runs with varied allow-lists.
AllowListFolders ==
    {NoFolder} \cup {[exists |-> TRUE, files |-> fs] :
                        fs \in SeqsUpTo(AllowListFiles, MaxFilterFiles)}

MissingFile == [exists |-> FALSE, readable |-> FALSE, columns_ok |-> FALSE,
                rows |-> <<>>]

\* A table with the rows rs under the four required columns.
DataFile(rs) == [exists |-> TRUE, readable |-> TRUE, columns_ok |-> TRUE,
                 rows |-> rs]

\* The transformed files an entity may have, with at most n rows.
EntityFiles(entity, n) ==
    {MissingFile} \cup
    (IF entity \in DataEntities
     THEN {DataFile(rs) : rs \in SeqsUpTo(Rows, n) \ {<<>>}}
     ELSE {})

\* The rows of the runs that exercise the loaders: one visit of a patient
\* on a day, at 09:00 with the note 'a'.
PlainRows == {r \in Rows : r.fecha.time = 9 /\ r.notas = <<97>>}

RowBefore(r, s) ==
    \/ r.id_mascota < s.id_mascota
    \/ (r.id_mascota = s.id_mascota /\ r.fecha.day < s.fecha.day)

\* The tables of 1..n plain rows, by patient and day, none twice.
PlainTables(n) ==
    {rs \in SeqsUpTo(PlainRows, n) \ {<<>>} :
        \A i \in 1..Len(rs) : \A j \in (i + 1)..Len(rs) :
            RowBefore(rs[i], rs[j])}

\* A workbook that pd.read_excel cannot read.
UnreadableFile == [exists |-> TRUE, readable |-> FALSE, columns_ok |-> FALSE,
                   rows |-> <<>>]

\* A table with a row and without one of the required columns.
BadColumnsFile ==
    [exists |-> TRUE, readable |-> TRUE, columns_ok |-> FALSE,
     rows |-> <<[id_mascota |-> 100, fecha |-> [day |-> 1, time |-> 9],
                 notas |-> <<97>>]>>]

\* The files of an entity in the runs with varied allow-lists.
ListedFiles(entity, n) ==
    {MissingFile} \cup
    (IF entity \in DataEntities
     THEN {DataFile(rs) : rs \in PlainTables(n)}
     ELSE {})

\* The files of an entity in the runs with faulty tables.
FaultyFiles(entity, n) ==
    {MissingFile} \cup
    (IF entity \in DataEntities
     THEN {UnreadableFile, DataFile(<<>>)}
          \cup (IF n >= 1 THEN {BadColumnsFile} ELSE {})
          \cup {DataFile(rs) : rs \in PlainTables(n)}
     ELSE {})

\* The output directory before a run: empty, or with the two batches, the
\* summary and a text file of an earlier run.
BatchName(k, total) == [kind |-> "batch", index |-> k, total |-> total]
SummaryName == [kind |-> "summary", index |-> 0, total |-> 0]
OtherName == [kind |-> "other", index |-> 0, total |-> 0]

EarlierRun ==
    {[name |-> n, run |-> "earlier", complete |-> TRUE] :
        n \in {BatchName(1, 2), BatchName(2, 2), SummaryName, OtherName}}

StaleDirectories == {{}, EarlierRun}

Commands == {"consolidate_medical_records", "final_processing"}

\* The command lines of final_processing: --cliente X alone, or followed by
\* --batch-size 1 as the usage text of the module has it.
CommandLines == {<<>>, <<1>>}

(***************************************************************************)
(* load_pets_filter and load_entity_data.                                  *)
(***************************************************************************)
\* No filter (None): every patient is processed.
NoFilter == [active |-> FALSE, ids |-> {}]

\* Mutant: the ids of a file replace those of the files before it.
RECURSIVE UnionOfFiles_LastWins(_, _)
UnionOfFiles_LastWins(files, pets_to_import) ==
    IF files = <<>> THEN pets_to_import
    ELSE UnionOfFiles_LastWins(Tail(files),
                               IF Head(files).readable
                               THEN Head(files).ids
                               ELSE pets_to_import)

\* pets_to_import after the files: pets_to_import.update(file_pets) for
\* every file that is read, and nothing for one that is not.
RECURSIVE UnionOfFiles(_, _)
UnionOfFiles(files, pets_to_import) ==
    IF files = <<>> THEN pets_to_import
    ELSE UnionOfFiles(Tail(files),
                      IF Head(files).readable
                      THEN pets_to_import \cup Head(files).ids
                      ELSE pets_to_import)

\* Mutant: a folder without allow-lists gives the empty allow-list.
load_pets_filter_EmptyList(folder) ==
    IF ~folder.exists THEN NoFilter
    ELSE [active |-> TRUE,
          ids |-> UnionOfFiles(SelectSeq(folder.files, LAMBDA f : f.xlsx), {})]

load_pets_filter(folder) ==
    IF ~folder.exists THEN NoFilter
    ELSE LET filter_files == SelectSeq(folder.files, LAMBDA f : f.xlsx)
         IN  IF filter_files = <<>> THEN NoFilter
             ELSE [active |-> TRUE, ids |-> UnionOfFiles(filter_files, {})]

\* entity_name.upper()
Upper(entity_name) ==
    CASE entity_name = "Apuntes" -> "APUNTES"
      [] entity_name = "DatosdeControl" -> "DATOSDECONTROL"
      [] entity_name = "Diagnosticos" -> "DIAGNOSTICOS"
      [] entity_name = "Prescripciones" -> "PRESCRIPCIONES"
      [] entity_name = "Procedimientos" -> "PROCEDIMIENTOS"
      [] entity_name = "Vacunas" -> "VACUNAS"

\* Mutant: the allow-list is loaded and never applied.
ApplyFilter_Ignored(rows, filter) == rows

\* Mutant: a table with a row of a listed patient is kept whole.
ApplyFilter_WholeTable(rows, filter) ==
    IF filter.active
    THEN IF \E i \in 1..Len(rows) : rows[i].id_mascota \in filter.ids
         THEN rows ELSE <<>>
    ELSE rows

\* df[df['ID MASCOTA'].isin(pets_filter)]
ApplyFilter(rows, filter) ==
    IF filter.active
    THEN SelectSeq(rows, LAMBDA r : r.id_mascota \in filter.ids)
    ELSE rows

\* Mutant: the required columns are not looked for.
load_entity_data_NoColumnCheck(file, entity_name, filter) ==
    IF ~file.exists THEN <<>>
    ELSE IF ~file.readable THEN <<>>
    ELSE LET df == ApplyFilter(file.rows, filter)
         IN  [i \in 1..Len(df) |->
                [id_mascota |-> df[i].id_mascota, fecha |-> df[i].fecha,
                 notas |-> df[i].notas, entidad |-> Upper(entity_name)]]

\* The tagged rows of the entity, or <<>> for "no data" (None).
load_entity_data(file, entity_name, filter) ==
    IF ~file.exists THEN <<>>
    ELSE IF ~file.readable THEN <<>>
    ELSE IF ~file.columns_ok THEN <<>>
    ELSE LET df == ApplyFilter(file.rows, filter)
         IN  [i \in 1..Len(df) |->
                [id_mascota |-> df[i].id_mascota, fecha |-> df[i].fecha,
                 notas |-> df[i].notas, entidad |-> Upper(entity_name)]]

(***************************************************************************)
(* The record consolidator: grouping by patient and day, rendering.        *)
(***************************************************************************)
\* pd.concat(all_dataframes, ignore_index=True)
Concat(dataframes) == Flatten(dataframes)

\* Mutant: the grouping column keeps the time of day.
FechaSolo_WithTime(fecha) == fecha.day * 100 + fecha.time

\* combined_df['FECHA_ORIGINAL'].dt.date
FechaSolo(fecha) == fecha.day

\* Mutant: grouped by the full timestamp, FECHA_ORIGINAL.
GroupKey_FullTimestamp(row) ==
    <<row.id_mascota, row.fecha.day * 100 + row.fecha.time>>

\* The key a row is grouped by: ['ID MASCOTA', 'FECHA_SOLO'].
GroupKey(row) == <<row.id_mascota, FechaSolo(row.fecha)>>

KeyLess(a, b) == a[1] < b[1] \/ (a[1] = b[1] /\ a[2] < b[2])

RECURSIVE SortedKeys(_)
SortedKeys(keys) ==
    IF keys = {} THEN <<>>
    ELSE LET k == CHOOSE x \in keys : \A y \in keys \ {x} : KeyLess(x, y)
         IN  <<k>> \o SortedKeys(keys \ {k})

\* combined_df.groupby(['ID MASCOTA', 'FECHA_SOLO']): the groups in ascending
\* key order, each with the positions of its rows in the order of the table.
GroupBy(df) ==
    LET keys == SortedKeys({GroupKey(df[i]) : i \in 1..Len(df)})
    IN  [g \in 1..Len(keys) |->
           [key |-> keys[g],
            index |-> SelectSeq([i \in 1..Len(df) |-> i],
                                LAMBDA i : GroupKey(df[i]) = keys[g])]]

\* The rows of a group, as a table.
GroupRows(df, grp) == [j \in 1..Len(grp.index) |-> df[grp.index[j]]]

\* Mutant: the order of file_mapping, which is alphabetical.
entity_order_Alphabetical ==
    <<"APUNTES", "DATOS DE CONTROL", "DIAGNOSTICOS", "PRESCRIPCIONES",
      "PROCEDIMIENTOS", "VACUNAS">>

entity_order == <<"APUNTES", "PROCEDIMIENTOS", "DIAGNOSTICOS",
                  "DATOS DE CONTROL", "PRESCRIPCIONES", "VACUNAS">>

\* f"{entity}": the title of an entity, as text.
EntityTitle(entity) ==
    CASE entity = "APUNTES" -> <<65, 80, 85, 78, 84, 69, 83>>
      [] entity = "PROCEDIMIENTOS" ->
            <<80, 82, 79, 67, 69, 68, 73, 77, 73, 69, 78, 84, 79, 83>>
      [] entity = "DIAGNOSTICOS" ->
            <<68, 73, 65, 71, 78, 79, 83, 84, 73, 67, 79, 83>>
      [] entity = "DATOS DE CONTROL" ->
            <<68, 65, 84, 79, 83, 32, 68, 69, 32, 67, 79, 78, 84, 82, 79, 76>>
      [] entity = "PRESCRIPCIONES" ->
            <<80, 82, 69, 83, 67, 82, 73, 80, 67, 73, 79, 78, 69, 83>>
      [] entity = "VACUNAS" -> <<86, 65, 67, 85, 78, 65, 83>>

\* The tag the rows of an entity of entity_order carry.
SearchEntity(entity) ==
    IF entity = "DATOS DE CONTROL" THEN "DATOSDECONTROL" ELSE entity

\* Mutant: the notes of an entity are listed from the last to the first.
RECURSIVE NoteLines_LastFirst(_)
NoteLines_LastFirst(entity_data) ==
    IF entity_data = <<>> THEN <<>>
    ELSE LET nota == clean_text_for_excel(Head(entity_data).notas)
         IN  NoteLines_LastFirst(Tail(entity_data))
             \o (IF nota # <<>> /\ Strip(nota) # <<>> THEN <<Strip(nota)>>
                 ELSE <<>>)

\* The lines of the notes of one entity: the empty ones are left out.
RECURSIVE NoteLines(_)
NoteLines(entity_data) ==
    IF entity_data = <<>> THEN <<>>
    ELSE LET nota == clean_text_for_excel(Head(entity_data).notas)
         IN  (IF nota # <<>> /\ Strip(nota) # <<>> THEN <<Strip(nota)>>
              ELSE <<>>)
             \o NoteLines(Tail(entity_data))

\* Mutant: no empty line after the notes of an entity.
EntityBlock_NoSeparator(group, entity) ==
    LET entity_data ==
            SelectSeq(group, LAMBDA r : r.entidad = SearchEntity(entity))
    IN  IF entity_data # <<>>
        THEN <<EntityTitle(entity)>> \o NoteLines(entity_data)
        ELSE <<>>

\* The block of one entity: title, notes, and an empty line.
EntityBlock(group, entity) ==
    LET entity_data ==
            SelectSeq(group, LAMBDA r : r.entidad = SearchEntity(entity))
    IN  IF entity_data # <<>>
        THEN <<EntityTitle(entity)>> \o NoteLines(entity_data) \o << <<>> >>
        ELSE <<>>

\* notas_consolidadas of a group: the blocks of entity_order[k..].
RECURSIVE RenderFrom(_, _)
RenderFrom(group, k) ==
    IF k > Len(entity_order) THEN <<>>
    ELSE EntityBlock(group, entity_order[k]) \o RenderFrom(group, k + 1)

NotasConsolidadas(group) == RenderFrom(group, 1)

\* '\n'.join(lines)
RECURSIVE JoinLines(_)
JoinLines(lines) ==
    IF lines = <<>> THEN <<>>
    ELSE IF Len(lines) = 1 THEN lines[1]
    ELSE lines[1] \o <<10>> \o JoinLines(Tail(lines))

\* Mutant: the earliest timestamp of the group, not the first.
ConsolidateGroup_EarliestFecha(df, grp) ==
    LET group == GroupRows(df, grp)
        earliest == CHOOSE i \in 1..Len(group) :
                        \A j \in 1..Len(group) :
                            group[i].fecha.time <= group[j].fecha.time
    IN  << [id_mascota |-> grp.key[1],
            fecha |-> group[earliest].fecha,
            notas |-> JoinLines(NotasConsolidadas(group))] >>

\* Mutant: the record carries the day of the grouping key, at midnight.
ConsolidateGroup_FechaSolo(df, grp) ==
    LET group == GroupRows(df, grp)
        notas_consolidadas == NotasConsolidadas(group)
    IN  IF notas_consolidadas # <<>>
        THEN << [id_mascota |-> grp.key[1],
                 fecha |-> [day |-> grp.key[2], time |-> 0],
                 notas |-> JoinLines(notas_consolidadas)] >>
        ELSE <<>>

\* The consolidated record of a group, if it has one.
ConsolidateGroup(df, grp) ==
    LET group == GroupRows(df, grp)
        fecha_original_completa == group[1].fecha
        notas_consolidadas == NotasConsolidadas(group)
    IN  IF notas_consolidadas # <<>>
        THEN << [id_mascota |-> grp.key[1],
                 fecha |-> fecha_original_completa,
                 notas |-> JoinLines(notas_consolidadas)] >>
        ELSE <<>>

\* consolidated_records: one pass over the groups.
Consolidate(df) ==
    LET groups == GroupBy(df)
    IN  Flatten([g \in 1..Len(groups) |-> ConsolidateGroup(df, groups[g])])

(***************************************************************************)
(* The sequencer and the batcher.                                          *)
(***************************************************************************)
FechaLess(a, b) == a.day < b.day \/ (a.day = b.day /\ a.time < b.time)

\* Mutant: sorted by patient and then by timestamp.
SortKeyLeq_PatientFirst(r, s) ==
    \/ r.id_mascota < s.id_mascota
    \/ (r.id_mascota = s.id_mascota
        /\ (FechaLess(r.fecha, s.fecha) \/ r.fecha = s.fecha))

\* Mutant: sorted by timestamp alone.
SortKeyLeq_FechaOnly(r, s) == FechaLess(r.fecha, s.fecha) \/ r.fecha = s.fecha

\* The order of sort_values(['FECHA', 'ID MASCOTA']).
SortKeyLeq(r, s) ==
    \/ FechaLess(r.fecha, s.fecha)
    \/ (r.fecha = s.fecha /\ r.id_mascota <= s.id_mascota)

\* x goes after the last element that is not greater: the sort is stable.
RECURSIVE InsertSorted(_, _)
InsertSorted(sorted, x) ==
    IF sorted = <<>> THEN <<x>>
    ELSE IF SortKeyLeq(Head(sorted), x)
         THEN <<Head(sorted)>> \o InsertSorted(Tail(sorted), x)
         ELSE <<x>> \o sorted

RECURSIVE SortValues(_)
SortValues(records) ==
    IF records = <<>> THEN <<>>
    ELSE InsertSorted(SortValues(SubSeq(records, 1, Len(records) - 1)),
                      records[Len(records)])

\* final_df: sorted, with ID ATENCION = range(1, len + 1).
Sequenced(records) ==
    LET sorted == SortValues(records)
    IN  [i \in 1..Len(sorted) |->
           [id_atencion |-> i, id_mascota |-> sorted[i].id_mascota,
            fecha |-> sorted[i].fecha, notas |-> sorted[i].notas]]

\* Mutant: the last, smaller batch is forgotten.
TotalBatches_Floor(n, size) == n \div size

\* (len(final_df) - 1) // batch_size + 1
TotalBatches(n, size) == ((n - 1) \div size) + 1

\* start_idx and end_idx of batch i (from 0) of a table of n rows.
BatchBounds(n, i, size) == <<i * size, Min2((i + 1) * size, n)>>

\* final_df.iloc[start_idx:end_idx]
BatchSlice(df, i, size) ==
    LET bounds == BatchBounds(Len(df), i, size)
    IN  SubSeq(df, bounds[1] + 1, bounds[2])

MinOf(S) == CHOOSE x \in S : \A y \in S : x <= y
MaxOf(S) == CHOOSE x \in S : \A y \in S : y <= x

\* The workbook of batch i (from 0): its rows and its info_batch sheet.
BatchFile(df, i, size) ==
    LET batch_df == BatchSlice(df, i, size)
        ids == {batch_df[j].id_atencion : j \in 1..Len(batch_df)}
    IN  [batch |-> i + 1,
         total_batches |-> TotalBatches(Len(df), size),
         historia_clinica |-> batch_df,
         registros |-> Len(batch_df),
         rango |-> IF ids = {} THEN <<>> ELSE <<MinOf(ids), MaxOf(ids)>>]

MinFecha(S) == CHOOSE x \in S : \A y \in S \ {x} : FechaLess(x, y)
MaxFecha(S) == CHOOSE x \in S : \A y \in S \ {x} : FechaLess(y, x)

\* Mutant: every batch is listed with the nominal batch size.
SummaryFile_NominalSizes(df, files, size) ==
    LET total_batches == TotalBatches(Len(df), size)
        fechas == {df[i].fecha : i \in 1..Len(df)}
    IN  [total_registros |-> Len(df),
         total_batches |-> total_batches,
         registros_por_batch |-> size,
         mascotas_unicas |-> Cardinality({df[i].id_mascota : i \in 1..Len(df)}),
         fecha_inicio |-> MinFecha(fechas).day,
         fecha_fin |-> MaxFecha(fechas).day,
         archivos |-> [i \in 1..Len(files) |-> files[i].batch],
         registros |-> [k \in 1..total_batches |-> size]]

\* resumen_consolidacion.xlsx
SummaryFile(df, files, size) ==
    LET total_batches == TotalBatches(Len(df), size)
        fechas == {df[i].fecha : i \in 1..Len(df)}
    IN  [total_registros |-> Len(df),
         total_batches |-> total_batches,
         registros_por_batch |-> size,
         mascotas_unicas |-> Cardinality({df[i].id_mascota : i \in 1..Len(df)}),
         fecha_inicio |-> MinFecha(fechas).day,
         fecha_fin |-> MaxFecha(fechas).day,
         archivos |-> [i \in 1..Len(files) |-> files[i].batch],
         registros |-> [k \in 1..total_batches |->
                          IF k - 1 < total_batches - 1 THEN size
                          ELSE Len(df) - (k - 1) * size]]

(***************************************************************************)
(* The run of consolidate_medical_records, step by step, and the steps of  *)
(* final_processing around it.                                             *)
(***************************************************************************)
\* The rows read so far from the entity tables, before any filter.
RowsRead == SumSeq([i \in 1..Len(tables) |-> Len(tables[i].rows)])

\* The allow-list folders a run may find.
Folders == IF scenario = "filters" THEN AllowListFolders ELSE FilterFolders

\* The rows a run may read from all its tables.
RowBudget ==
    CASE scenario = "filters" -> MaxFilterRows
      [] scenario = "faults" -> MaxFaultRows
      [] OTHER -> MaxRows

\* The transformed files a run may find for an entity, with at most n rows.
Files(entity, n) ==
    CASE scenario = "filters" -> ListedFiles(entity, n)
      [] scenario = "faults" -> FaultyFiles(entity, n)
      [] OTHER -> EntityFiles(entity, n)

\* The files of the entities ents[k..], with at most n rows in all.
RECURSIVE Disks(_, _, _)
Disks(ents, k, n) ==
    IF k > Len(ents) THEN {<<>>}
    ELSE UNION {{<<f>> \o d : d \in Disks(ents, k + 1, n - Len(f.rows))} :
                   f \in Files(ents[k], n)}

\* Nothing has been read, computed or written.
Started ==
    /\ entities = <<>>
    /\ pets_filter = NoFilter
    /\ filter_folder = NoFolder
    /\ ent_idx = 1
    /\ tables = <<>>
    /\ all_dataframes = <<>>
    /\ consolidated_records = <<>>
    /\ final_df = <<>>
    /\ batch_files = <<>>
    /\ summary = <<>>
    /\ result = "running"
    /\ exit_code = <<>>
    /\ pipeline_steps = <<>>
    /\ generation = <<>>
    /\ step_idx = 0
    /\ steps_run = <<>>
    /\ pipeline_results = <<>>

\* The sanitizer is not run alone.
NoText ==
    /\ raw_text = <<>>
    /\ cell_limit = ExcelCellLimit
    /\ cleaned = <<>>
    /\ recleaned = <<>>

\* The consolidation script is launched on tables with varied records.
Init ==
    /\ scenario = "records"
    /\ command = "consolidate_medical_records"
    /\ argv = <<>>
    /\ pc = "config"
    /\ output_dir = {}
    /\ Started
    /\ NoText

\* The consolidation script is launched on a client with allow-lists.
FilterInit ==
    /\ scenario = "filters"
    /\ command = "consolidate_medical_records"
    /\ argv = <<>>
    /\ pc = "config"
    /\ output_dir = {}
    /\ Started
    /\ NoText

\* Either command is launched on a client whose tables may be faulty and
\* whose output directory may have been used before.
FaultInit ==
    /\ scenario = "faults"
    /\ command \in Commands
    /\ argv \in (IF command = "final_processing" THEN CommandLines ELSE {<<>>})
    /\ pc = IF command = "final_processing" THEN "parse" ELSE "config"
    /\ output_dir \in StaleDirectories
    /\ Started
    /\ NoText

\* Mutant: the command exits with 0 whatever happened.
ExitCode_AlwaysZero(success) == 0

\* sys.exit(0) if success else sys.exit(1); an exception that nothing
\* catches ends the interpreter with 1 as well.
ExitCode(success) == IF success THEN 0 ELSE 1

\* The script ends: its process exits, and under final_processing
\* subprocess.run returns to run_consolidation.
EndOfScript(success) ==
    IF command = "final_processing"
    THEN pc' = "returned" /\ UNCHANGED exit_code
    ELSE pc' = "done" /\ exit_code' = <<ExitCode(success)>>

\* The directory after the file called name was written by this run.
Written(dir, name, complete) ==
    {f \in dir : f.name # name}
    \cup {[name |-> name, run |-> "this", complete |-> complete]}

\* entities = load_client_config(base_path, client_name); the file is the
\* one final_processing has read, if it has.
LoadClientConfig ==
    /\ pc = "config"
    /\ \E config \in (IF entities = <<>> THEN ClientConfigs ELSE {entities}) :
          entities' = config
    /\ pc' = "filter"
    /\ UNCHANGED <<pets_filter, ent_idx, tables, all_dataframes,
                   consolidated_records, final_df, batch_files, summary, result>>
    /\ UNCHANGED <<launch, pipelines, sanitizer, filter_folder, output_dir,
                   exit_code>>

\* pets_filter = load_pets_filter(base_path, client_name)
LoadPetsFilter ==
    /\ pc = "filter"
    /\ \E folder \in Folders :
          /\ filter_folder' = folder
          /\ pets_filter' = load_pets_filter(folder)
    /\ pc' = "load"
    /\ UNCHANGED <<entities, ent_idx, tables, all_dataframes,
                   consolidated_records, final_df, batch_files, summary, result>>
    /\ UNCHANGED <<launch, pipelines, sanitizer, output_dir, exit_code>>

\* One turn of: for entity in entities: df = load_entity_data(...); the file
\* is the one final_processing has validated, if it has.
LoadEntity ==
    /\ pc = "load"
    /\ ent_idx <= Len(entities)
    /\ \E file \in (IF ent_idx <= Len(tables) THEN {tables[ent_idx]}
                    ELSE Files(entities[ent_idx], RowBudget - RowsRead)) :
          LET df == load_entity_data(file, entities[ent_idx], pets_filter)
          IN  /\ tables' = IF ent_idx <= Len(tables) THEN tables
                           ELSE Append(tables, file)
              /\ all_dataframes' = IF df # <<>> THEN Append(all_dataframes, df)
                                   ELSE all_dataframes
    /\ ent_idx' = ent_idx + 1
    /\ UNCHANGED <<pc, entities, pets_filter, consolidated_records, final_df,
                   batch_files, summary, result>>
    /\ UNCHANGED <<launch, pipelines, sanitizer, filter_folder, output_dir,
                   exit_code>>

\* if not all_dataframes: return False
NoDataLoaded ==
    /\ pc = "load"
    /\ ent_idx > Len(entities)
    /\ all_dataframes = <<>>
    /\ result' = "failed"
    /\ EndOfScript(FALSE)
    /\ UNCHANGED <<entities, pets_filter, ent_idx, tables, all_dataframes,
                   consolidated_records, final_df, batch_files, summary>>
    /\ UNCHANGED <<launch, pipelines, sanitizer, filter_folder, output_dir>>

\* Steps 3 and 4: combine the tables, group, render every group.
ConsolidateRecords ==
    /\ pc = "load"
    /\ ent_idx > Len(entities)
    /\ all_dataframes # <<>>
    /\ consolidated_records' = Consolidate(Concat(all_dataframes))
    /\ pc' = "sort"
    /\ UNCHANGED <<entities, pets_filter, ent_idx, tables, all_dataframes,
                   final_df, batch_files, summary, result>>
    /\ UNCHANGED <<launch, pipelines, sanitizer, filter_folder, output_dir,
                   exit_code>>

\* Step 5: sort and number the consolidated records.
AssignIds ==
    /\ pc = "sort"
    /\ final_df' = Sequenced(consolidated_records)
    /\ pc' = "batch"
    /\ UNCHANGED <<entities, pets_filter, ent_idx, tables, all_dataframes,
                   consolidated_records, batch_files, summary, result>>
    /\ UNCHANGED <<launch, pipelines, sanitizer, filter_folder, output_dir,
                   exit_code>>

\* Step 6: one turn of: for i in range(total_batches): write the batch.
WriteBatch ==
    /\ pc = "batch"
    /\ Len(batch_files) < TotalBatches(Len(final_df), batch_size)
    /\ batch_files' = Append(batch_files,
                             BatchFile(final_df, Len(batch_files), batch_size))
    /\ output_dir' =
          Written(output_dir,
                  BatchName(Len(batch_files) + 1,
                            TotalBatches(Len(final_df), batch_size)),
                  TRUE)
    /\ UNCHANGED <<pc, entities, pets_filter, ent_idx, tables, all_dataframes,
                   consolidated_records, final_df, summary, result>>
    /\ UNCHANGED <<launch, pipelines, sanitizer, filter_folder, exit_code>>

\* The summary workbook, and return True.
WriteSummary ==
    /\ pc = "batch"
    /\ Len(batch_files) >= TotalBatches(Len(final_df), batch_size)
    /\ summary' = <<SummaryFile(final_df, batch_files, batch_size)>>
    /\ output_dir' = Written(output_dir, SummaryName, TRUE)
    /\ result' = "ok"
    /\ EndOfScript(TRUE)
    /\ UNCHANGED <<entities, pets_filter, ent_idx, tables, all_dataframes,
                   consolidated_records, final_df, batch_files>>
    /\ UNCHANGED <<launch, pipelines, sanitizer, filter_folder>>

\* Mutant: the failure of a batch is caught, and the loop goes on.
WriteBatchFails_LoopGoesOn ==
    /\ pc = "batch"
    /\ Len(batch_files) < TotalBatches(Len(final_df), batch_size)
    /\ batch_files' = Append(batch_files,
                             BatchFile(final_df, Len(batch_files), batch_size))
    /\ result' = "raised"
    /\ UNCHANGED <<pc, entities, pets_filter, ent_idx, tables, all_dataframes,
                   consolidated_records, final_df, summary, output_dir>>
    /\ UNCHANGED <<launch, pipelines, sanitizer, filter_folder, exit_code>>

\* Writing a batch raises (the disk is full, the file is locked): nothing
\* catches it; the workbook may be left behind, unfinished.
WriteBatchFails ==
    /\ pc = "batch"
    /\ Len(batch_files) < TotalBatches(Len(final_df), batch_size)
    /\ \E left_behind \in BOOLEAN :
          output_dir' =
              IF left_behind
              THEN Written(output_dir,
                           BatchName(Len(batch_files) + 1,
                                     TotalBatches(Len(final_df), batch_size)),
                           FALSE)
              ELSE output_dir
    /\ result' = "raised"
    /\ EndOfScript(FALSE)
    /\ UNCHANGED <<entities, pets_filter, ent_idx, tables, all_dataframes,
                   consolidated_records, final_df, batch_files, summary>>
    /\ UNCHANGED <<launch, pipelines, sanitizer, filter_folder>>

\* Writing the summary raises.
WriteSummaryFails ==
    /\ pc = "batch"
    /\ Len(batch_files) >= TotalBatches(Len(final_df), batch_size)
    /\ \E left_behind \in BOOLEAN :
          output_dir' = IF left_behind
                        THEN Written(output_dir, SummaryName, FALSE)
                        ELSE output_dir
    /\ result' = "raised"
    /\ EndOfScript(FALSE)
    /\ UNCHANGED <<entities, pets_filter, ent_idx, tables, all_dataframes,
                   consolidated_records, final_df, batch_files, summary>>
    /\ UNCHANGED <<launch, pipelines, sanitizer, filter_folder>>

\* args = parser.parse_args() in main of final_processing: the parser knows
\* --cliente and --base-path; on any other option it prints the usage and
\* exits with 2.
ParseArguments ==
    /\ pc = "parse"
    /\ IF argv # <<>>
       THEN pc' = "done" /\ exit_code' = <<2>>
       ELSE pc' = "validate" /\ UNCHANGED exit_code
    /\ UNCHANGED <<entities, pets_filter, ent_idx, tables, all_dataframes,
                   consolidated_records, final_df, batch_files, summary, result>>
    /\ UNCHANGED <<launch, pipelines, sanitizer, filter_folder, output_dir>>

\* Mutant: the command goes on when a transformed file is missing.
ValidateTransformedFiles_GoesOn ==
    /\ pc = "validate"
    /\ \E client_entities \in ClientConfigs :
       \E disk \in Disks(client_entities, 1, RowBudget) :
          /\ entities' = client_entities
          /\ tables' = disk
    /\ pc' = "setup"
    /\ UNCHANGED <<pets_filter, ent_idx, all_dataframes, consolidated_records,
                   final_df, batch_files, summary, result>>
    /\ UNCHANGED <<launch, pipelines, sanitizer, filter_folder, output_dir,
                   exit_code>>

\* validate_transformed_files: every entity of the client has a file that
\* pd.read_excel reads; if not, process_final returns False and main exits.
ValidateTransformedFiles ==
    /\ pc = "validate"
    /\ \E client_entities \in ClientConfigs :
       \E disk \in Disks(client_entities, 1, RowBudget) :
          LET missing_files ==
                  SelectSeq(disk, LAMBDA f : ~(f.exists /\ f.readable))
          IN  /\ entities' = client_entities
              /\ tables' = disk
              /\ IF missing_files # <<>>
                 THEN pc' = "done" /\ exit_code' = <<ExitCode(FALSE)>>
                 ELSE pc' = "setup" /\ UNCHANGED exit_code
    /\ UNCHANGED <<pets_filter, ent_idx, all_dataframes, consolidated_records,
                   final_df, batch_files, summary, result>>
    /\ UNCHANGED <<launch, pipelines, sanitizer, filter_folder, output_dir>>

\* Mutant: only the batches that this run is sure to write again go.
CleanedDirectory_FirstBatchOnly(dir) ==
    {f \in dir : ~(f.name.kind = "batch" /\ f.name.index = 1)}

\* The files that setup_output_directory leaves: those that are no .xlsx.
CleanedDirectory(dir) == {f \in dir : f.name.kind = "other"}

\* setup_output_directory
SetupOutputDirectory ==
    /\ pc = "setup"
    /\ output_dir' = CleanedDirectory(output_dir)
    /\ pc' = "spawn"
    /\ UNCHANGED <<entities, pets_filter, ent_idx, tables, all_dataframes,
                   consolidated_records, final_df, batch_files, summary, result>>
    /\ UNCHANGED <<launch, pipelines, sanitizer, filter_folder, exit_code>>

\* run_consolidation: subprocess.run starts the consolidation script.
RunConsolidation ==
    /\ pc = "spawn"
    /\ pc' = "config"
    /\ UNCHANGED <<entities, pets_filter, ent_idx, tables, all_dataframes,
                   consolidated_records, final_df, batch_files, summary, result>>
    /\ UNCHANGED <<launch, pipelines, sanitizer, filter_folder, output_dir,
                   exit_code>>

\* The script has exited with 1: CalledProcessError, run_consolidation and
\* process_final return False, main exits with 1.
ConsolidationFailed ==
    /\ pc = "returned"
    /\ result # "ok"
    /\ pc' = "done"
    /\ exit_code' = <<ExitCode(FALSE)>>
    /\ UNCHANGED <<entities, pets_filter, ent_idx, tables, all_dataframes,
                   consolidated_records, final_df, batch_files, summary, result>>
    /\ UNCHANGED <<launch, pipelines, sanitizer, filter_folder, output_dir>>

\* The script has exited with 0: verify_output looks for the batches, and
\* main exits.
VerifyOutput ==
    /\ pc = "returned"
    /\ result = "ok"
    /\ LET found == {f \in output_dir : f.name.kind = "batch"}
       IN  exit_code' = <<ExitCode(found # {})>>
    /\ pc' = "done"
    /\ UNCHANGED <<entities, pets_filter, ent_idx, tables, all_dataframes,
                   consolidated_records, final_df, batch_files, summary, result>>
    /\ UNCHANGED <<launch, pipelines, sanitizer, filter_folder, output_dir>>

\* The steps of the consolidation script when every write succeeds.
Next ==
    \/ LoadClientConfig
    \/ LoadPetsFilter
    \/ LoadEntity
    \/ NoDataLoaded
    \/ ConsolidateRecords
    \/ AssignIds
    \/ WriteBatch
    \/ WriteSummary

\* The steps of both commands, with the writes that fail.
FaultNext ==
    \/ Next
    \/ WriteBatchFails
    \/ WriteSummaryFails
    \/ ParseArguments
    \/ ValidateTransformedFiles
    \/ SetupOutputDirectory
    \/ RunConsolidation
    \/ ConsolidationFailed
    \/ VerifyOutput

Spec == Init /\ [][Next]_vars

\* The same runs, for the properties of the consolidated records alone.
RecordSpec == Init /\ [][Next]_vars

FilterSpec == FilterInit /\ [][Next]_vars

FaultSpec == FaultInit /\ [][FaultNext]_vars

(***************************************************************************)
(* The sanitizer alone: a text is sanitized, and the result once more.     *)
(***************************************************************************)
\* '=', ' ', 'a', '<' and the tabulator.
TextChars == {61, 32, 97, 60, 9}

Texts == SeqsUpTo(TextChars, MaxTextLen)

\* The limits of a cell: one that the texts reach, and the one of Excel.
CellLimits == {MaxCell, ExcelCellLimit}

CleanInit ==
    /\ scenario = "texts"
    /\ command = "clean_text_for_excel"
    /\ argv = <<>>
    /\ pc = "clean"
    /\ output_dir = {}
    /\ Started
    /\ raw_text \in Texts
    /\ cell_limit \in CellLimits
    /\ cleaned = <<>>
    /\ recleaned = <<>>

\* cleaned = clean_text_for_excel(raw_text)
CleanOnce ==
    /\ pc = "clean"
    /\ cleaned' = CleanText(raw_text, cell_limit)
    /\ pc' = "clean again"
    /\ UNCHANGED <<entities, pets_filter, ent_idx, tables, all_dataframes,
                   consolidated_records, final_df, batch_files, summary, result>>
    /\ UNCHANGED <<launch, pipelines, filter_folder, output_dir, exit_code>>
    /\ UNCHANGED <<raw_text, cell_limit, recleaned>>

\* recleaned = clean_text_for_excel(cleaned)
CleanAgain ==
    /\ pc = "clean again"
    /\ recleaned' = CleanText(cleaned, cell_limit)
    /\ pc' = "cleaned"
    /\ UNCHANGED <<entities, pets_filter, ent_idx, tables, all_dataframes,
                   consolidated_records, final_df, batch_files, summary, result>>
    /\ UNCHANGED <<launch, pipelines, filter_folder, output_dir, exit_code>>
    /\ UNCHANGED <<raw_text, cell_limit, cleaned>>

CleanNext == CleanOnce \/ CleanAgain

CleanSpec == CleanInit /\ [][CleanNext]_vars

(***************************************************************************)
(* process_client_data: ClientDataProcessor.process runs the pipeline of   *)
(* every selected entity, script after script, and then looks for the      *)
(* final transformed file of each.                                         *)
(***************************************************************************)
\* The keys of script_mapping: the steps that have a script.
MappedSteps == {"analyze", "merge", "organize", "extract", "transform"}

\* The pipelines an entity may be configured with in entidades_disponibles:
\* those of the script folders, and one with a step that has no script.
Pipelines ==
    {<<"analyze", "transform">>,
     <<"analyze", "merge", "transform">>,
     <<"merge", "organize">>,
     <<"analyze", "validate", "transform">>}

\* self.entidades: the entities of the client, or those chosen with
\* --entidades.
EntitySelections ==
    {<<"Apuntes">>, <<"Apuntes", "Procedimientos">>,
     <<"Procedimientos", "Apuntes">>}

\* What a generation directory may hold before the run: nothing, or the
\* final file of an earlier run.
GenerationDirs == {{}, {"import_transformed"}}

\* expected_file of a step: analyze has none.
ExpectedFile(step) ==
    CASE step = "merge" -> <<"merged">>
      [] step = "organize" -> <<"organized">>
      [] step = "extract" -> <<"with_peso_temp">>
      [] step = "transform" -> <<"import_transformed">>
      [] OTHER -> <<>>

\* What may happen to a step: its script is not in the scripts directory;
\* subprocess.run raises; the script exits with 0 or with 1 or is stopped at
\* the timeout, having written its file or not.
Outcomes ==
    {[script |-> FALSE, ended |-> "not run", writes |-> FALSE],
     [script |-> TRUE, ended |-> "exception", writes |-> FALSE]}
    \cup {[script |-> TRUE, ended |-> e, writes |-> w] :
             e \in {"exit 0", "exit 1", "timeout"}, w \in BOOLEAN}

\* Mutant: the exit code alone decides.
StepSucceeded_ExitCodeOnly(outcome, expected_file, files) ==
    outcome.script /\ outcome.ended = "exit 0"

\* success of a step: the script is there, it has returned 0, and its
\* expected file, if it has one, exists.
StepSucceeded(outcome, expected_file, files) ==
    /\ outcome.script
    /\ outcome.ended = "exit 0"
    /\ expected_file # <<>> => expected_file[1] \in files

\* The variables of the consolidation, which these runs leave alone.
consolidation == <<pets_filter, tables, all_dataframes, consolidated_records,
                   final_df, batch_files, summary, filter_folder, output_dir>>

\* main has built the processor for a client and chosen the entities.
PipelineInit ==
    /\ scenario = "pipelines"
    /\ command = "process_client_data"
    /\ argv = <<>>
    /\ pc = "source"
    /\ entities \in EntitySelections
    /\ pipeline_steps \in [1..Len(entities) -> Pipelines]
    /\ generation \in [1..Len(entities) -> GenerationDirs]
    /\ ent_idx = 1
    /\ step_idx = 0
    /\ steps_run = <<>>
    /\ pipeline_results = <<>>
    /\ result = "running"
    /\ exit_code = <<>>
    /\ pets_filter = NoFilter
    /\ filter_folder = NoFolder
    /\ tables = <<>>
    /\ all_dataframes = <<>>
    /\ consolidated_records = <<>>
    /\ final_df = <<>>
    /\ batch_files = <<>>
    /\ summary = <<>>
    /\ output_dir = {}
    /\ NoText

\* process returns False, or an exception ends it: main exits with 1.
ProcessFails ==
    /\ result' = "failed"
    /\ exit_code' = <<ExitCode(FALSE)>>
    /\ pc' = "done"

\* Steps 0 to 2 of process: the source file is looked for; if it is gone
\* FileNotFoundError is caught and process returns False.
VerifySourceFile ==
    /\ pc = "source"
    /\ \E found \in BOOLEAN :
          IF found
          THEN pc' = "pipeline" /\ UNCHANGED <<result, exit_code>>
          ELSE ProcessFails
    /\ UNCHANGED <<entities, ent_idx, launch, pipelines, sanitizer,
                   consolidation>>

\* _execute_pipeline of the entity at hand, up to the loop of the scripts:
\* a step without a script returns False, no step returns True.
BuildPipeline ==
    /\ pc = "pipeline"
    /\ ent_idx <= Len(entities)
    /\ step_idx = 0
    /\ LET steps == pipeline_steps[ent_idx]
       IN  IF \E k \in 1..Len(steps) : steps[k] \notin MappedSteps
           THEN /\ pipeline_results' = Append(pipeline_results, FALSE)
                /\ ent_idx' = ent_idx + 1
                /\ UNCHANGED step_idx
           ELSE IF steps = <<>>
           THEN /\ pipeline_results' = Append(pipeline_results, TRUE)
                /\ ent_idx' = ent_idx + 1
                /\ UNCHANGED step_idx
           ELSE /\ step_idx' = 1
                /\ UNCHANGED <<pipeline_results, ent_idx>>
    /\ UNCHANGED <<pc, entities, result, exit_code, pipeline_steps,
                   generation, steps_run>>
    /\ UNCHANGED <<launch, sanitizer, consolidation>>

\* One turn of the loop of the scripts: the script is run; after a failure
\* _execute_pipeline returns False, after the last script True, and process
\* goes to the next entity.
RunStep ==
    /\ pc = "pipeline"
    /\ ent_idx <= Len(entities)
    /\ step_idx >= 1
    /\ \E outcome \in Outcomes :
          LET steps == pipeline_steps[ent_idx]
              expected_file == ExpectedFile(steps[step_idx])
              files == IF outcome.writes /\ expected_file # <<>>
                       THEN generation[ent_idx] \cup {expected_file[1]}
                       ELSE generation[ent_idx]
              success == StepSucceeded(outcome, expected_file, files)
          IN  /\ generation' = [generation EXCEPT ![ent_idx] = files]
              /\ steps_run' =
                    Append(steps_run,
                           [entidad |-> ent_idx, step |-> step_idx,
                            name |-> steps[step_idx],
                            script |-> outcome.script,
                            ended |-> outcome.ended,
                            expected_exists |->
                                (expected_file = <<>>
                                 \/ expected_file[1] \in files)])
              /\ IF success /\ step_idx < Len(steps)
                 THEN /\ step_idx' = step_idx + 1
                      /\ UNCHANGED <<ent_idx, pipeline_results>>
                 ELSE /\ step_idx' = 0
                      /\ ent_idx' = ent_idx + 1
                      /\ pipeline_results' = Append(pipeline_results, success)
    /\ UNCHANGED <<pc, entities, result, exit_code, pipeline_steps>>
    /\ UNCHANGED <<launch, sanitizer, consolidation>>

\* _generate_summary_report: the final files found are listed in a
\* workbook beside the scripts, which no later step reads.
GenerateSummaryReport ==
    /\ pc = "pipeline"
    /\ ent_idx > Len(entities)
    /\ pc' = "final"
    /\ UNCHANGED <<entities, ent_idx, result, exit_code, launch, pipelines,
                   sanitizer, consolidation>>

\* Steps 5 and 6 of process: True if the final file of every entity is
\* there; main exits with 0 or 1.
FinalVerification ==
    /\ pc = "final"
    /\ LET archivos_finales ==
               SelectSeq([i \in 1..Len(entities) |-> i],
                         LAMBDA i : "import_transformed" \in generation[i])
           success == Len(archivos_finales) = Len(entities)
       IN  /\ result' = IF success THEN "ok" ELSE "failed"
           /\ exit_code' = <<ExitCode(success)>>
    /\ pc' = "done"
    /\ UNCHANGED <<entities, ent_idx, launch, pipelines, sanitizer,
                   consolidation>>

PipelineNext ==
    \/ VerifySourceFile
    \/ BuildPipeline
    \/ RunStep
    \/ GenerateSummaryReport
    \/ FinalVerification

PipelineSpec == PipelineInit /\ [][PipelineNext]_vars

(***************************************************************************)
(* Definitions shared by the properties.                                   *)
(***************************************************************************)
\* The combined table of the run.
Combined == Concat(all_dataframes)

\* The groups have been rendered.
Consolidated == pc \in {"sort", "batch", "done"} /\ all_dataframes # <<>>

\* The records have been sorted and numbered.
Numbered == pc \in {"batch", "done"} /\ all_dataframes # <<>>

SameDay(r, s) == r.id_mascota = s.id_mascota /\ r.fecha.day = s.fecha.day

\* The rows of df of one patient and one calendar day, in the order of df.
MembersOf(df, r) == SelectSeq(df, LAMBDA s : SameDay(r, s))

\* The sanitized note of a row is empty.
EmptyNote(row) == Strip(clean_text_for_excel(row.notas)) = <<>>

\* text.split('\n')
RECURSIVE SplitFrom(_, _)
SplitFrom(text, line) ==
    IF text = <<>> THEN <<line>>
    ELSE IF Head(text) = 10 THEN <<line>> \o SplitFrom(Tail(text), <<>>)
    ELSE SplitFrom(Tail(text), Append(line, Head(text)))

SplitLines(text) == SplitFrom(text, <<>>)

\* Two positions of a table are in one group of its grouping.
InSameGroup(groups, i, j) ==
    \E g \in 1..Len(groups) :
        i \in Range(groups[g].index) /\ j \in Range(groups[g].index)

(***************************************************************************)
(* C1: whatever the order of the loaded records, two records are in the    *)
(* same consolidation group exactly if they have the same patient id and   *)
(* the same calendar day; every record is in one group.  (Every table     *)
(* that is left by an allow-list is also the table of a run without one.)  *)
(***************************************************************************)
C1_GroupingByPatientAndDay ==
    (pc = "sort" /\ ~pets_filter.active) =>
        \A p \in Perms(Len(Combined)) :
            LET df == Permuted(Combined, p)
                groups == GroupBy(df)
            IN  \A i \in 1..Len(df) : \A j \in i..Len(df) :
                    InSameGroup(groups, i, j) <=> SameDay(df[i], df[j])

\* Two records of different entities and times of day are joined, a record
\* of another patient on the same day is kept apart.
C1_Witness ==
    /\ Consolidated
    /\ Len(consolidated_records) = 2
    /\ \E i, j, k \in 1..Len(Combined) :
          /\ SameDay(Combined[i], Combined[j])
          /\ Combined[i].fecha.time # Combined[j].fecha.time
          /\ Combined[i].entidad # Combined[j].entidad
          /\ Combined[k].id_mascota # Combined[i].id_mascota
          /\ Combined[k].fecha = Combined[i].fecha
          /\ Combined[k].entidad = Combined[i].entidad

(***************************************************************************)
(* C2: a group whose every member has an empty sanitized note produces no  *)
(* consolidated record.                                                    *)
(***************************************************************************)
C2_EmptyGroupDropped ==
    Consolidated =>
        \A i \in 1..Len(Combined) :
            (\A m \in Range(MembersOf(Combined, Combined[i])) : EmptyNote(m))
            => ~ \E r \in Range(consolidated_records) : SameDay(r, Combined[i])

(***************************************************************************)
(* C3: in a group with content from another entity, an entity whose notes  *)
(* are all empty adds nothing to the note text: the text is that of the    *)
(* group without the rows of that entity.                                  *)
(***************************************************************************)
\* The rows of the entity of row r in the group have only empty notes.
SilentEntity(group, r) ==
    \A m \in Range(group) : m.entidad = r.entidad => EmptyNote(m)

C3_EmptyEntitySuppressed ==
    Consolidated =>
        \A r \in Range(consolidated_records) :
            LET group == MembersOf(Combined, r)
                spoken == SelectSeq(group, LAMBDA m : ~SilentEntity(group, m))
            IN  spoken # <<>> =>
                    r.notas = JoinLines(NotasConsolidadas(spoken))

(***************************************************************************)
(* C4: in every note text the titles of the entities come in the order     *)
(* APUNTES, PROCEDIMIENTOS, DIAGNOSTICOS, DATOS DE CONTROL,                *)
(* PRESCRIPCIONES, VACUNAS, one title for each entity that has a record    *)
(* in the group and none for the others, whatever the order in which the   *)
(* tables were loaded and the records stand in the input.  (The orders of  *)
(* the records are tried on the runs without an allow-list.)               *)
(***************************************************************************)
FixedOrder == <<"APUNTES", "PROCEDIMIENTOS", "DIAGNOSTICOS",
                "DATOS DE CONTROL", "PRESCRIPCIONES", "VACUNAS">>

AllTitles == {EntityTitle(FixedOrder[k]) : k \in 1..Len(FixedOrder)}

\* Those of the lines that are the title of an entity.
TitleLines(lines) == SelectSeq(lines, LAMBDA l : l \in AllTitles)

\* The entities with a row in the group, in the fixed order.
PresentEntities(group) ==
    SelectSeq(FixedOrder,
              LAMBDA e : \E m \in Range(group) : m.entidad = SearchEntity(e))

\* The titles of the entities of the group, in the fixed order.
ExpectedTitles(group) ==
    LET present == PresentEntities(group)
    IN  [k \in 1..Len(present) |-> EntityTitle(present[k])]

C4_BlocksInFixedOrder ==
    pc = "sort" =>
        \A r \in Range(consolidated_records) :
            LET group == MembersOf(Combined, r)
                titles == ExpectedTitles(group)
            IN  /\ TitleLines(SplitLines(r.notas)) = titles
                /\ ~pets_filter.active =>
                      \A p \in Perms(Len(group)) :
                          TitleLines(NotasConsolidadas(Permuted(group, p)))
                              = titles

\* A group with the three entities, loaded in another order than rendered.
C4_Witness ==
    /\ pc = "sort"
    /\ [i \in 1..Len(Combined) |-> Combined[i].entidad]
          = <<"APUNTES", "DATOSDECONTROL", "PROCEDIMIENTOS">>
    /\ Len(consolidated_records) = 1
    /\ \A i \in 1..Len(Combined) : ~EmptyNote(Combined[i])

(***************************************************************************)
(* C5: the note text of a group is, for each entity present in the group   *)
(* in the fixed order, the title line, one line per member note and one    *)
(* empty line, joined by single newlines.  As claimed, every member has a  *)
(* line (C5_OneLinePerMember); amended, every member whose sanitized note  *)
(* is not empty has one (C5_NoteTextLayout).  The text ends with exactly   *)
(* one newline, and a group with a note 'a' at 09:00 and a control datum   *)
(* '=b' at 14:00 renders as APUNTES, a, empty, DATOS DE CONTROL, b, empty. *)
(***************************************************************************)
SanitizedNotes(rows) ==
    [i \in 1..Len(rows) |-> Strip(clean_text_for_excel(rows[i].notas))]

\* The expected block of an entity; every note has a line if all is TRUE.
ExpectedBlock(group, e, all) ==
    LET rows == SelectSeq(group, LAMBDA m : m.entidad = SearchEntity(e))
        notes == SanitizedNotes(rows)
    IN  IF rows = <<>> THEN <<>>
        ELSE <<EntityTitle(e)>>
             \o (IF all THEN notes ELSE SelectSeq(notes, LAMBDA n : n # <<>>))
             \o << <<>> >>

ExpectedLines(group, all) ==
    Flatten([k \in 1..Len(FixedOrder) |->
                ExpectedBlock(group, FixedOrder[k], all)])

OneTrailingNewline(text) ==
    /\ Len(text) >= 2
    /\ text[Len(text)] = 10
    /\ text[Len(text) - 1] # 10

ExampleGroup ==
    << [id_mascota |-> 100, fecha |-> [day |-> 1, time |-> 9],
        notas |-> <<97>>, entidad |-> "APUNTES"],
       [id_mascota |-> 100, fecha |-> [day |-> 1, time |-> 14],
        notas |-> <<61, 98>>, entidad |-> "DATOSDECONTROL"] >>

\* "APUNTES\na\n\nDATOS DE CONTROL\nb\n"
ExampleText ==
    <<65, 80, 85, 78, 84, 69, 83, 10, 97, 10, 10,
      68, 65, 84, 79, 83, 32, 68, 69, 32, 67, 79, 78, 84, 82, 79, 76, 10,
      98, 10>>

\* Every entity of the group has a member with a note that is not empty.
EveryEntitySpeaks(group) == \A m \in Range(group) : ~SilentEntity(group, m)

\* The claim as made, on the groups in which every entity has a note (the
\* others are the matter of C2 and C3).
C5_OneLinePerMember ==
    Consolidated =>
        \A r \in Range(consolidated_records) :
            LET group == MembersOf(Combined, r)
            IN  EveryEntitySpeaks(group) =>
                    SplitLines(r.notas) = ExpectedLines(group, TRUE)

C5_NoteTextLayout ==
    pc = "sort" =>
        \A r \in Range(consolidated_records) :
            LET group == MembersOf(Combined, r)
            IN  /\ SplitLines(r.notas) = ExpectedLines(group, FALSE)
                /\ OneTrailingNewline(r.notas)
                /\ group = ExampleGroup => r.notas = ExampleText

\* The run of the example, finished.
C5_Witness ==
    /\ pc = "done"
    /\ result = "ok"
    /\ Combined = ExampleGroup
    /\ Len(batch_files) = 1
    /\ batch_files[1].historia_clinica[1].notas = ExampleText

(***************************************************************************)
(* C6: the timestamp of a consolidated record is the full timestamp of the *)
(* first member of its group in loaded order (the tables in the order of   *)
(* the entity list, each in its row order), also when that member is not   *)
(* the earliest of the group and when its note is empty.                   *)
(***************************************************************************)
Allowed(row) == pets_filter.active => row.id_mascota \in pets_filter.ids

\* The rows of the tables read, in loaded order, without those filtered out.
LoadedRows ==
    Flatten([i \in 1..Len(tables) |->
                IF tables[i].exists /\ tables[i].columns_ok
                THEN SelectSeq(tables[i].rows, Allowed)
                ELSE <<>>])

C6_FirstSeenTimestamp ==
    pc = "sort" =>
        \A r \in Range(consolidated_records) :
            LET members == SelectSeq(LoadedRows, LAMBDA m : SameDay(r, m))
            IN  members # <<>> /\ r.fecha = members[1].fecha

\* The first member is the later one of its day, and its note is empty.
C6_Witness ==
    /\ Consolidated
    /\ \E r \in Range(consolidated_records) :
          LET members == SelectSeq(LoadedRows, LAMBDA m : SameDay(r, m))
          IN  /\ Len(members) >= 2
              /\ members[1].fecha.time = 14
              /\ members[2].fecha.time = 9
              /\ Strip(clean_text_for_excel(members[1].notas)) = <<>>
              /\ r.fecha = [day |-> r.fecha.day, time |-> 14]

(***************************************************************************)
(* C7: after sequencing, the N consolidated records carry the output ids   *)
(* 1..N, each once, and in the order of the ids they ascend by timestamp   *)
(* and then by patient id.                                                 *)
(***************************************************************************)
\* r comes before s, or ties with it, by (timestamp, patient id).
AscendingPair(r, s) ==
    \/ r.fecha.day < s.fecha.day
    \/ r.fecha.day = s.fecha.day /\ r.fecha.time < s.fecha.time
    \/ r.fecha = s.fecha /\ r.id_mascota <= s.id_mascota

WithoutId(row) ==
    [id_mascota |-> row.id_mascota, fecha |-> row.fecha, notas |-> row.notas]

\* s and t hold the same elements, each as often.
SameBag(s, t) ==
    /\ Len(s) = Len(t)
    /\ \A x \in Range(s) \cup Range(t) :
          Cardinality({i \in 1..Len(s) : s[i] = x})
              = Cardinality({i \in 1..Len(t) : t[i] = x})

C7_DenseSortedIds ==
    Numbered =>
        /\ Len(final_df) = Len(consolidated_records)
        /\ \A i \in 1..Len(final_df) : final_df[i].id_atencion = i
        /\ \A i, j \in 1..Len(final_df) :
              i < j => AscendingPair(final_df[i], final_df[j])
        /\ SameBag([i \in 1..Len(final_df) |-> WithoutId(final_df[i])],
                   consolidated_records)

\* Three records, two with the same timestamp, that the sort had to reorder.
C7_Witness ==
    /\ Numbered
    /\ Len(final_df) = 3
    /\ final_df[1].fecha = final_df[2].fecha
    /\ final_df[1].id_mascota < final_df[2].id_mascota
    /\ [i \in 1..3 |-> WithoutId(final_df[i])] # consolidated_records

(***************************************************************************)
(* C8: N >= 1 records and batch size B give ceil(N/B) batches; batch k     *)
(* holds the records with the ids (k-1)*B+1 .. min(k*B, N) in order, so    *)
(* every batch but the last has B records, no record is in two batches or  *)
(* in none, and the batches in a row are the sorted sequence.  For         *)
(* N = 12003 and B = 5000: sizes 5000, 5000, 2003, batch 2 has the ids     *)
(* 5001..10000.                                                            *)
(***************************************************************************)
CeilDiv(n, b) == CHOOSE k \in 0..n : (k - 1) * b < n /\ n <= k * b

\* The size of batch i (from 0) of n records.
SliceSize(n, i, size) == BatchBounds(n, i, size)[2] - BatchBounds(n, i, size)[1]

BatchingExample ==
    /\ TotalBatches(12003, 5000) = 3
    /\ SliceSize(12003, 0, 5000) = 5000
    /\ SliceSize(12003, 1, 5000) = 5000
    /\ SliceSize(12003, 2, 5000) = 2003
    /\ BatchBounds(12003, 1, 5000) = <<5000, 10000>>

\* Batch k is as claimed.
BatchAsClaimed(k) ==
    LET n == Len(final_df)
        first == (k - 1) * batch_size + 1
        last == Min2(k * batch_size, n)
        rows == batch_files[k].historia_clinica
    IN  /\ batch_files[k].batch = k
        /\ Len(rows) = last - first + 1
        /\ \A j \in 1..Len(rows) :
              rows[j] = final_df[first + j - 1]
              /\ rows[j].id_atencion = first + j - 1
        /\ k < CeilDiv(n, batch_size) => Len(rows) = batch_size

C8_BatchPartition ==
    /\ Numbered =>
          /\ Len(batch_files) <= CeilDiv(Len(final_df), batch_size)
          /\ \A k \in 1..Len(batch_files) : BatchAsClaimed(k)
    /\ (pc = "done" /\ result = "ok") =>
          /\ Len(final_df) >= 1
          /\ Len(batch_files) = CeilDiv(Len(final_df), batch_size)
          /\ Flatten([k \in 1..Len(batch_files) |->
                         batch_files[k].historia_clinica]) = final_df
    /\ pc = "config" => BatchingExample

\* Several batches, the last one smaller than the others.
C8_Witness ==
    /\ pc = "done"
    /\ result = "ok"
    /\ Len(batch_files) >= 2
    /\ batch_files[Len(batch_files)].registros < batch_size
    /\ batch_files[1].registros = batch_size

(***************************************************************************)
(* C9: the output ids and the batch contents are a function of the entity  *)
(* tables, the entity list and the allow-list; the result of the sequencer *)
(* does not depend on the order in which it is handed the consolidated     *)
(* records.  (The orders are tried on the runs without an allow-list:      *)
(* what an allow-list leaves is also the input of a run without one.)      *)
(***************************************************************************)
\* The run once more, from the inputs it has read.
Rerun ==
    LET dfs == [i \in 1..Len(tables) |->
                   load_entity_data(tables[i], entities[i], pets_filter)]
        loaded == SelectSeq(dfs, LAMBDA df : df # <<>>)
    IN  Sequenced(Consolidate(Concat(loaded)))

C9_Deterministic ==
    /\ (pc = "batch" /\ batch_files = <<>> /\ ~pets_filter.active) =>
          \A p \in Perms(Len(consolidated_records)) :
              Sequenced(Permuted(consolidated_records, p)) = final_df
    /\ (pc = "batch" /\ batch_files = <<>>) => Rerun = final_df
    /\ (pc = "done" /\ result = "ok") =>
          \A k \in 1..Len(batch_files) :
              batch_files[k] = BatchFile(Rerun, k - 1, batch_size)

\* Two records with the same timestamp have been sequenced and written.
C9_Witness ==
    /\ pc = "done"
    /\ result = "ok"
    /\ \E i, j \in 1..Len(consolidated_records) :
          /\ i < j
          /\ consolidated_records[i].fecha = consolidated_records[j].fecha
    /\ Len(final_df) = 3

(***************************************************************************)
(* C10: with an allow-list, the rows of the other patients are removed     *)
(* from every table before the grouping, and no consolidated record of     *)
(* any batch has a patient outside the list.                               *)
(***************************************************************************)
OnlyAllowed(rows) ==
    \A i \in 1..Len(rows) : rows[i].id_mascota \in pets_filter.ids

C10_OnlyAllowedPatients ==
    pets_filter.active =>
        /\ \A d \in 1..Len(all_dataframes) : OnlyAllowed(all_dataframes[d])
        /\ OnlyAllowed(consolidated_records)
        /\ OnlyAllowed(final_df)
        /\ \A k \in 1..Len(batch_files) :
              OnlyAllowed(batch_files[k].historia_clinica)

\* The tables held rows of patient 200, the list is {100}, a batch is written.
C10_Witness ==
    /\ pc = "done"
    /\ result = "ok"
    /\ pets_filter = [active |-> TRUE, ids |-> {100}]
    /\ \E t \in Range(tables) : \E row \in Range(t.rows) : row.id_mascota = 200
    /\ \E t \in Range(tables) :
          t.rows # <<>> /\ \A row \in Range(t.rows) : row.id_mascota = 200
    /\ batch_files # <<>>

(***************************************************************************)
(* Definitions shared by the properties of the allow-list.                 *)
(***************************************************************************)
\* The allow-list folder has been read: the script has come past it, and
\* the command has not ended before the script was started.
FilterLoaded ==
    /\ pc \notin {"parse", "validate", "setup", "spawn", "config", "filter",
                  "clean", "clean again", "cleaned"}
    /\ ~(pc = "done" /\ result = "running")

\* The .xlsx files of a folder.
XlsxFiles(folder) == SelectSeq(folder.files, LAMBDA f : f.xlsx)

\* The folder holds allow-list files, and every one fails to be read.
NoneReadable(folder) ==
    /\ folder.exists
    /\ XlsxFiles(folder) # <<>>
    /\ \A f \in Range(XlsxFiles(folder)) : ~f.readable

\* The rows of the tables read, as they stand in the files.
RowsOfTables == Flatten([i \in 1..Len(tables) |-> tables[i].rows])

Untagged(row) ==
    [id_mascota |-> row.id_mascota, fecha |-> row.fecha, notas |-> row.notas]

\* The rows that went into the consolidation, without their entity tag.
RowsLoaded == [i \in 1..Len(Combined) |-> Untagged(Combined[i])]

(***************************************************************************)
(* C11: when the allow-list folder holds files and every one of them fails *)
(* to be read, load_pets_filter returns "no filter", and the run keeps the *)
(* rows of every patient and ends well if there are any.                   *)
(***************************************************************************)
C11_UnreadableListsMeanNoFilter ==
    (FilterLoaded /\ NoneReadable(filter_folder)) =>
        /\ pets_filter = NoFilter
        /\ RowsLoaded = SubSeq(RowsOfTables, 1, Len(RowsLoaded))
        /\ (pc = "done" /\ RowsOfTables # <<>>) => result = "ok"

(***************************************************************************)
(* C12: the allow-list is the union of the patient ids of the readable     *)
(* allow-list files of the folder: the order of the files does not matter, *)
(* an id of several files is in it once, and a file that fails to be read  *)
(* takes away nothing but its own ids.  The files {1,2,3} and {3,4} give   *)
(* {1,2,3,4}.                                                              *)
(***************************************************************************)
ReadableIds(folder) ==
    UNION {f.ids : f \in {g \in Range(XlsxFiles(folder)) : g.readable}}

\* The folder without its k-th file.
WithoutFile(folder, k) ==
    [exists |-> TRUE,
     files |-> SubSeq(folder.files, 1, k - 1)
               \o SubSeq(folder.files, k + 1, Len(folder.files))]

UnionExample ==
    load_pets_filter(
        [exists |-> TRUE,
         files |-> <<[xlsx |-> TRUE, readable |-> TRUE, ids |-> {1, 2, 3}],
                     [xlsx |-> TRUE, readable |-> TRUE, ids |-> {3, 4}]>>])
        = [active |-> TRUE, ids |-> {1, 2, 3, 4}]

C12_AllowListIsUnion ==
    /\ (FilterLoaded /\ pets_filter.active) =>
          /\ pets_filter.ids = ReadableIds(filter_folder)
          /\ \A p \in Perms(Len(filter_folder.files)) :
                load_pets_filter(
                    [exists |-> TRUE,
                     files |-> Permuted(filter_folder.files, p)])
                    = pets_filter
          /\ \A k \in 1..Len(filter_folder.files) :
                ~filter_folder.files[k].readable =>
                    load_pets_filter(WithoutFile(filter_folder, k)).ids
                        = pets_filter.ids
    /\ pc = "config" => UnionExample

\* Two lists that share patient 100 were read after a file that failed.
C12_Witness ==
    /\ pc = "done"
    /\ result = "ok"
    /\ Len(XlsxFiles(filter_folder)) >= 2
    /\ \E i, j \in 1..Len(filter_folder.files) :
          /\ i < j
          /\ filter_folder.files[i].readable
          /\ filter_folder.files[j].readable
          /\ filter_folder.files[i].ids # filter_folder.files[j].ids
          /\ 100 \in filter_folder.files[i].ids \cap filter_folder.files[j].ids
    /\ pets_filter = [active |-> TRUE, ids |-> {100, 200}]

(***************************************************************************)
(* C13: if the allow-list folder of the client does not exist, or holds no *)
(* .xlsx file, load_pets_filter returns "no filter" and every row of every *)
(* entity table is kept.                                                   *)
(***************************************************************************)
NoAllowList(folder) == ~folder.exists \/ XlsxFiles(folder) = <<>>

C13_NoFolderNoFilter ==
    (FilterLoaded /\ NoAllowList(filter_folder)) =>
        /\ pets_filter = NoFilter
        /\ RowsLoaded = RowsOfTables

\* A folder with a file that is no allow-list, and the rows of two patients.
C13_Witness ==
    /\ pc = "done"
    /\ result = "ok"
    /\ filter_folder.exists
    /\ filter_folder.files # <<>>
    /\ XlsxFiles(filter_folder) = <<>>
    /\ {final_df[i].id_mascota : i \in 1..Len(final_df)} = {100, 200}

(***************************************************************************)
(* Definitions shared by the properties of the failure paths.              *)
(***************************************************************************)
\* Every entity of the list has been handed to load_entity_data.
LoadingDone == FilterLoaded /\ ent_idx > Len(entities)

\* The table of the i-th entity is missing, cannot be read, lacks a
\* required column, or has no row that the allow-list lets through.
Skipped(i) ==
    \/ ~tables[i].exists
    \/ ~tables[i].readable
    \/ ~tables[i].columns_ok
    \/ SelectSeq(tables[i].rows, Allowed) = <<>>

\* The positions of the entities that are not skipped.
Remaining ==
    SelectSeq([i \in 1..Len(entities) |-> i], LAMBDA i : ~Skipped(i))

\* The sequenced records of a run on the entity list ents with the files.
RunOn(ents, files) ==
    LET dfs == [i \in 1..Len(ents) |->
                   load_entity_data(files[i], ents[i], pets_filter)]
        loaded == SelectSeq(dfs, LAMBDA df : df # <<>>)
    IN  IF loaded = <<>> THEN <<>>
        ELSE Sequenced(Consolidate(Concat(loaded)))

\* The files this run has written to the output directory.
WrittenByThisRun == {f \in output_dir : f.run = "this"}

(***************************************************************************)
(* C14: an entity whose table is missing, lacks a required column or is    *)
(* empty once the allow-list is applied gives no data and is skipped; if   *)
(* another entity was loaded the run goes on, and its records and batches  *)
(* are those of a run configured with the remaining entities alone.        *)
(***************************************************************************)
C14_SkippedEntities ==
    LoadingDone =>
        LET ents == [k \in 1..Len(Remaining) |-> entities[Remaining[k]]]
            files == [k \in 1..Len(Remaining) |-> tables[Remaining[k]]]
        IN  /\ \A i \in 1..Len(entities) :
                  Skipped(i) =>
                      \A r \in Range(Combined) : r.entidad # Upper(entities[i])
            /\ Len(all_dataframes) = Len(Remaining)
            /\ Remaining # <<>> =>
                  /\ result # "failed"
                  /\ pc \notin {"load", "sort"} => final_df = RunOn(ents, files)
                  /\ \A k \in 1..Len(batch_files) :
                        batch_files[k]
                            = BatchFile(RunOn(ents, files), k - 1, batch_size)

\* A table without a column, a table that the allow-list empties, missing
\* tables, and one table that is consolidated and written.
C14_Witness ==
    /\ pc = "done"
    /\ result = "ok"
    /\ Len(Remaining) = 1
    /\ \E i \in 1..Len(tables) : tables[i] = BadColumnsFile
    /\ \E i \in 1..Len(tables) : ~tables[i].exists
    /\ \E i \in 1..Len(tables) :
          /\ tables[i].columns_ok
          /\ tables[i].rows # <<>>
          /\ SelectSeq(tables[i].rows, Allowed) = <<>>
    /\ batch_files # <<>>

(***************************************************************************)
(* C15: if every configured entity gave no data, the consolidation         *)
(* reports failure, writes no batch and no summary, and the command exits  *)
(* with a code that is not 0.                                              *)
(***************************************************************************)
C15_NoDataIsFailure ==
    (LoadingDone /\ all_dataframes = <<>>) =>
        /\ pc # "load" => result = "failed"
        /\ batch_files = <<>>
        /\ summary = <<>>
        /\ WrittenByThisRun = {}
        /\ exit_code # <<0>>
        /\ pc = "done" => exit_code = <<1>>

\* The tables were there, and the allow-list left nothing of them.
C15_Witness ==
    /\ pc = "done"
    /\ result = "failed"
    /\ exit_code = <<1>>
    /\ pets_filter.active
    /\ \E i \in 1..Len(tables) : tables[i].columns_ok /\ tables[i].rows # <<>>
    /\ \E i \in 1..Len(tables) : ~tables[i].exists

(***************************************************************************)
(* C16: final_processing exits with 0 only if the transformed table of     *)
(* every configured entity is there, can be read and has the required      *)
(* columns, and the consolidation has completed.                           *)
(***************************************************************************)
Importable(file) == file.exists /\ file.readable /\ file.columns_ok

C16_ExitZeroOnlyIfAllImportable ==
    (command = "final_processing" /\ exit_code = <<0>>) =>
        /\ result = "ok"
        /\ \A i \in 1..Len(entities) : Importable(tables[i])

(***************************************************************************)
(* C17: in a run of final_processing every .xlsx of an earlier run is      *)
(* removed from the output directory before the first batch is written.    *)
(* As claimed, the directory holds no .xlsx of an earlier run once the     *)
(* run has ended, however it ended (C17_NoStaleArtifactAtEnd); amended,    *)
(* it holds none from the moment setup_output_directory has run, hence     *)
(* whenever it holds a file of this run, while a run that ends at the      *)
(* validation has not touched it (C17_NoStaleBesideFresh).                 *)
(***************************************************************************)
\* The batches and summaries of earlier runs in the output directory.
StaleArtifacts ==
    {f \in output_dir : f.run = "earlier" /\ f.name.kind # "other"}

\* process_final has returned at the validation.
EndedAtValidation == pc = "done" /\ result = "running"

\* setup_output_directory has run.
DirectoryPrepared ==
    pc \notin {"parse", "validate", "setup"} /\ ~EndedAtValidation

C17_NoStaleArtifactAtEnd ==
    (command = "final_processing" /\ pc = "done") => StaleArtifacts = {}

C17_NoStaleBesideFresh ==
    command = "final_processing" =>
        /\ DirectoryPrepared => StaleArtifacts = {}
        /\ WrittenByThisRun # {} => StaleArtifacts = {}
        /\ EndedAtValidation =>
              WrittenByThisRun = {} /\ output_dir \in StaleDirectories

\* The directory of an earlier run now holds the batches of this one, some
\* written and one unfinished, beside the text file that was left alone.
C17_Witness ==
    /\ command = "final_processing"
    /\ pc = "done"
    /\ \E f \in output_dir : f.run = "earlier" /\ f.name.kind = "other"
    /\ \E f \in WrittenByThisRun : f.name.kind = "batch" /\ f.complete
    /\ \E f \in WrittenByThisRun : ~f.complete
    /\ StaleArtifacts = {}

(***************************************************************************)
(* C18: if writing batch k or the summary fails, the run ends in failure   *)
(* with an exit code that is not 0 and nothing is retried: the batches     *)
(* 1..k-1 stay as written, no batch after k and no summary is written.  A  *)
(* summary of this run exists only after all its ceil(N/B) batches.        *)
(***************************************************************************)
\* The complete batches of this run in the output directory.
CompleteBatches ==
    {f.name.index : f \in {g \in WrittenByThisRun :
                              g.name.kind = "batch" /\ g.complete}}

\* The files of this run that a failed write has left unfinished.
Unfinished == {f \in WrittenByThisRun : ~f.complete}

WriteFailed ==
    /\ summary = <<>>
    /\ \A k \in 1..Len(batch_files) :
          batch_files[k] = BatchFile(final_df, k - 1, batch_size)
    /\ CompleteBatches = 1..Len(batch_files)
    /\ \A f \in Unfinished :
          IF Len(batch_files) < TotalBatches(Len(final_df), batch_size)
          THEN f.name.kind = "batch" /\ f.name.index = Len(batch_files) + 1
          ELSE f.name.kind = "summary"
    /\ \A f \in WrittenByThisRun :
          f.name.kind = "summary" =>
              Len(batch_files) = TotalBatches(Len(final_df), batch_size)
    /\ exit_code # <<0>>
    /\ pc = "done" => exit_code = <<1>>
    /\ pc \in {"done", "returned"}

SummaryAfterAllBatches ==
    (\E f \in WrittenByThisRun : f.name.kind = "summary") =>
        /\ Len(batch_files) = TotalBatches(Len(final_df), batch_size)
        /\ CompleteBatches = 1..TotalBatches(Len(final_df), batch_size)

C18_WriteFailureIsFatal ==
    /\ [](result = "raised" => WriteFailed)
    /\ [](SummaryAfterAllBatches)
    /\ [][result = "raised" =>
             /\ result' = "raised"
             /\ UNCHANGED <<batch_files, summary, output_dir>>]_vars

\* The second of two batches failed, the first is there, the command ended.
C18_Witness ==
    /\ result = "raised"
    /\ pc = "done"
    /\ exit_code = <<1>>
    /\ Len(batch_files) = 1
    /\ TotalBatches(Len(final_df), batch_size) = 2
    /\ CompleteBatches = {1}
    /\ \E f \in Unfinished : f.name.index = 2

(***************************************************************************)
(* C19: clean_text_for_excel is idempotent: sanitizing a sanitized text    *)
(* gives the same text, also for texts that start with several formula     *)
(* characters, that have whitespace before a formula character, or that    *)
(* are longer than the cell limit.                                         *)
(***************************************************************************)
C19_Idempotent == pc = "cleaned" => recleaned = cleaned

(***************************************************************************)
(* C20: the summary agrees with the batches written: its record count is   *)
(* N, its batch count the number of batch files, its list of batch sizes   *)
(* the sizes of the batches, which add up to N, its patient count the      *)
(* number of distinct patients of the consolidated records, its date       *)
(* range the least and the greatest consolidated timestamp (as dates);     *)
(* the record count and the id range of every batch are those of its       *)
(* slice.                                                                  *)
(***************************************************************************)
\* No consolidated record is earlier than fecha (later, if latest).
Extreme(fecha, latest) ==
    /\ \E r \in Range(consolidated_records) : r.fecha = fecha
    /\ \A r \in Range(consolidated_records) :
          IF latest THEN ~FechaLess(fecha, r.fecha)
          ELSE ~FechaLess(r.fecha, fecha)

BatchMetadataOk(k) ==
    LET rows == batch_files[k].historia_clinica
    IN  /\ batch_files[k].registros = Len(rows)
        /\ batch_files[k].total_batches = Len(batch_files)
        /\ rows # <<>>
        /\ batch_files[k].rango
              = <<rows[1].id_atencion, rows[Len(rows)].id_atencion>>
        /\ \A j \in 1..Len(rows) :
              /\ batch_files[k].rango[1] <= rows[j].id_atencion
              /\ rows[j].id_atencion <= batch_files[k].rango[2]

C20_SummaryMatchesBatches ==
    (pc = "done" /\ result = "ok") =>
        /\ Len(summary) = 1
        /\ summary[1].total_registros = Len(consolidated_records)
        /\ summary[1].total_batches = Len(batch_files)
        /\ summary[1].archivos = [k \in 1..Len(batch_files) |-> k]
        /\ summary[1].registros =
              [k \in 1..Len(batch_files) |->
                  Len(batch_files[k].historia_clinica)]
        /\ SumSeq(summary[1].registros) = Len(consolidated_records)
        /\ summary[1].mascotas_unicas =
              Cardinality({r.id_mascota : r \in Range(consolidated_records)})
        /\ \E first, last \in {r.fecha : r \in Range(consolidated_records)} :
              /\ Extreme(first, FALSE)
              /\ Extreme(last, TRUE)
              /\ summary[1].fecha_inicio = first.day
              /\ summary[1].fecha_fin = last.day
        /\ \A k \in 1..Len(batch_files) : BatchMetadataOk(k)

\* Two batches of different sizes, two patients, two days.
C20_Witness ==
    /\ pc = "done"
    /\ result = "ok"
    /\ Len(summary) = 1
    /\ summary[1].registros = <<2, 1>>
    /\ summary[1].mascotas_unicas = 2
    /\ summary[1].fecha_inicio = 1
    /\ summary[1].fecha_fin = 2
    /\ final_df[1].fecha.time = 14

(***************************************************************************)
(* C21: final_processing accepts an optional batch size, and when one is   *)
(* given the command is carried out and no batch that the consolidation    *)
(* writes has more records than that size.                                 *)
(***************************************************************************)
\* The parser has refused the command line.
Refused == pc = "done" /\ exit_code = <<2>>

C21_BatchSizeOverride ==
    (command = "final_processing" /\ argv # <<>>) =>
        /\ ~Refused
        /\ \A k \in 1..Len(batch_files) : batch_files[k].registros <= argv[1]

(***************************************************************************)
(* C22: whatever the text, the sanitized text does not begin with one of   *)
(* the formula characters '=', '+', '-' and '@'.                           *)
(***************************************************************************)
C22_NoFormulaPrefix ==
    pc \in {"clean again", "cleaned"} =>
        (cleaned = <<>> \/ cleaned[1] \notin FormulaChars)

(***************************************************************************)
(* C23: the sanitized form of a text that is not empty is no longer than   *)
(* the cell limit, has no two whitespace characters in a row, and neither  *)
(* begins nor ends with whitespace, also when the text is cut.             *)
(***************************************************************************)
\* No two whitespace characters of the text are neighbours.
SingleSpaced(text) ==
    \A i \in 1..(Len(text) - 1) :
        ~(text[i] \in WhitespaceChars /\ text[i + 1] \in WhitespaceChars)

\* The text neither begins nor ends with whitespace.
Trimmed(text) ==
    text # <<>> =>
        (text[1] \notin WhitespaceChars /\ text[Len(text)] \notin WhitespaceChars)

C23_BoundedCollapsedTrimmed ==
    (pc \in {"clean again", "cleaned"} /\ raw_text # <<>>) =>
        /\ Len(cleaned) <= cell_limit
        /\ SingleSpaced(cleaned)
        /\ Trimmed(cleaned)

(***************************************************************************)
(* C24: the note text of a group loses nothing and adds nothing: under     *)
(* the title of each entity stand the sanitized notes of the members of    *)
(* that entity that are not empty, one line for each, in the order of the  *)
(* loaded table, and the text has no other note line.                      *)
(***************************************************************************)
\* The lines after the first line that is the title.
RECURSIVE LinesAfter(_, _)
LinesAfter(lines, title) ==
    IF lines = <<>> THEN <<>>
    ELSE IF Head(lines) = title THEN Tail(lines)
    ELSE LinesAfter(Tail(lines), title)

\* The lines before the first empty line.
RECURSIVE UpToEmptyLine(_)
UpToEmptyLine(lines) ==
    IF lines = <<>> \/ Head(lines) = <<>> THEN <<>>
    ELSE <<Head(lines)>> \o UpToEmptyLine(Tail(lines))

\* The note lines under the title of an entity.
LinesUnder(lines, entity) == UpToEmptyLine(LinesAfter(lines, EntityTitle(entity)))

\* The sanitized notes, not empty, of the members of an entity, in the
\* order of the table.
SpokenNotes(group, entity) ==
    SelectSeq(SanitizedNotes(SelectSeq(group,
                  LAMBDA m : m.entidad = SearchEntity(entity))),
              LAMBDA n : n # <<>>)

\* The lines that are neither a title nor empty.
NoteLinesOf(lines) == SelectSeq(lines, LAMBDA l : l # <<>> /\ l \notin AllTitles)

C24_LosslessNotes ==
    pc = "sort" =>
        \A r \in Range(consolidated_records) :
            LET group == MembersOf(Combined, r)
                lines == SplitLines(r.notas)
            IN  /\ \A k \in 1..Len(FixedOrder) :
                      LinesUnder(lines, FixedOrder[k])
                          = SpokenNotes(group, FixedOrder[k])
                /\ Len(NoteLinesOf(lines))
                      = Len(SelectSeq(group, LAMBDA m : ~EmptyNote(m)))

\* A group with two notes of one entity, 'b' before 'a', and a member of
\* another entity whose note the sanitizer empties.
C24_Witness ==
    /\ pc = "sort"
    /\ \E r \in Range(consolidated_records) :
          LET group == MembersOf(Combined, r)
              lines == SplitLines(r.notas)
          IN  /\ Len(group) = 3
              /\ \E m \in Range(group) : EmptyNote(m)
              /\ \E k \in 1..Len(FixedOrder) :
                    LinesUnder(lines, FixedOrder[k]) = << <<98>>, <<97>> >>

(***************************************************************************)
(* C25: no two consolidated records have the same patient and the same     *)
(* calendar day; hence no two have the same timestamp and patient, and     *)
(* the order of the sort leaves no two records tied.                       *)
(***************************************************************************)
\* No two records of the table are of one patient and one day, and of any
\* two one stands strictly before the other in the order of the sort.
OnePerPatientAndDay(records) ==
    \A i, j \in 1..Len(records) :
        i # j =>
            /\ ~SameDay(records[i], records[j])
            /\ <<records[i].fecha, records[i].id_mascota>>
                  # <<records[j].fecha, records[j].id_mascota>>
            /\ ~(SortKeyLeq(records[i], records[j])
                 /\ SortKeyLeq(records[j], records[i]))

C25_OneRecordPerPatientAndDay ==
    Consolidated =>
        /\ OnePerPatientAndDay(consolidated_records)
        /\ Numbered => OnePerPatientAndDay(final_df)

\* Two visits of a patient on one day, at different times, have become one
\* record, and the record of another patient has the same timestamp.
C25_Witness ==
    /\ Numbered
    /\ Len(final_df) = 2
    /\ final_df[1].fecha = final_df[2].fecha
    /\ final_df[1].id_mascota # final_df[2].id_mascota
    /\ \E i, j \in 1..Len(Combined) :
          /\ SameDay(Combined[i], Combined[j])
          /\ Combined[i].fecha.time # Combined[j].fecha.time

(***************************************************************************)
(* C26: the timestamp of a consolidated record is the timestamp, with its  *)
(* time of day, of a member of its group, so its day is the day of the     *)
(* group; the day without the time is the grouping key alone and is in no  *)
(* record of a batch.                                                      *)
(***************************************************************************)
\* The record has the patient and the full timestamp of a loaded row.
TimestampOfAMember(r) ==
    \E m \in Range(Combined) :
        /\ m.id_mascota = r.id_mascota
        /\ m.fecha = r.fecha
        /\ FechaSolo(m.fecha) = r.fecha.day

C26_TimestampKept ==
    /\ pc = "sort" => \A r \in Range(consolidated_records) : TimestampOfAMember(r)
    /\ Numbered =>
          \A k \in 1..Len(batch_files) :
              \A r \in Range(batch_files[k].historia_clinica) :
                  TimestampOfAMember(r)

\* A batch holds the record of a day with visits at 09:00 and at 14:00,
\* with the time 14:00 of the visit that was loaded first.
C26_Witness ==
    /\ pc = "done"
    /\ \E k \in 1..Len(batch_files) :
          \E r \in Range(batch_files[k].historia_clinica) :
              /\ r.fecha.time = 14
              /\ \E m \in Range(Combined) : SameDay(r, m) /\ m.fecha.time = 9

(***************************************************************************)
(* C27: with an allow-list, the patients, timestamps and note texts of     *)
(* the consolidated records are those of every run whose tables differ     *)
(* from the tables of this run only in rows of patients outside the list:  *)
(* the run without such rows, with or without the list, the runs in which  *)
(* every such row is another one, and the runs with one more such row at   *)
(* the head of every table.  (Two runs that differ only in such rows have  *)
(* the same run without them.)                                             *)
(***************************************************************************)
\* The rows a patient outside the allow-list may have: on day 1 at 14:00
\* or on day 2, with any note.
OutsideRows ==
    {r \in [id_mascota : Patients, fecha : Fechas, notas : NoteValues] :
        ~Allowed(r) /\ r.fecha # [day |-> 1, time |-> 9]}

\* The tables without the rows of the patients outside the list.
WithoutOutside ==
    [i \in 1..Len(tables) |->
        [tables[i] EXCEPT !.rows = SelectSeq(tables[i].rows, Allowed)]]

\* The tables with x for every row of a patient outside the list.
OutsideReplaced(x) ==
    [i \in 1..Len(tables) |->
        [tables[i] EXCEPT
            !.rows = [j \in 1..Len(tables[i].rows) |->
                         IF Allowed(tables[i].rows[j]) THEN tables[i].rows[j]
                         ELSE x]]]

\* The tables with the row x before the rows of every table that is there.
OutsideAdded(x) ==
    [i \in 1..Len(tables) |->
        IF tables[i].exists
        THEN [tables[i] EXCEPT !.rows = <<x>> \o tables[i].rows]
        ELSE tables[i]]

\* The sequenced records of a run of the entity list on the files.
RunWith(files, filter) ==
    LET dfs == [i \in 1..Len(files) |->
                   load_entity_data(files[i], entities[i], filter)]
        loaded == SelectSeq(dfs, LAMBDA df : df # <<>>)
    IN  IF loaded = <<>> THEN <<>>
        ELSE Sequenced(Consolidate(Concat(loaded)))

\* Patient, timestamp and note text of the records.
Triples(records) ==
    {<<records[i].id_mascota, records[i].fecha, records[i].notas>> :
        i \in 1..Len(records)}

C27_OutsideRowsDoNotMatter ==
    (pc = "batch" /\ batch_files = <<>> /\ pets_filter.active) =>
        /\ Triples(RunWith(WithoutOutside, pets_filter)) = Triples(final_df)
        /\ Triples(RunWith(WithoutOutside, NoFilter)) = Triples(final_df)
        /\ \A x \in OutsideRows :
              /\ Triples(RunWith(OutsideReplaced(x), pets_filter))
                    = Triples(final_df)
              /\ Triples(RunWith(OutsideAdded(x), pets_filter))
                    = Triples(final_df)

\* A table holds a visit of patient 200 before a visit of patient 100 on
\* the same day, the list is {100}, and the record of patient 100 is there.
C27_Witness ==
    /\ pc = "batch"
    /\ batch_files = <<>>
    /\ pets_filter.active
    /\ final_df # <<>>
    /\ \E i \in 1..Len(tables) :
          /\ Len(tables[i].rows) >= 2
          /\ ~Allowed(tables[i].rows[1])
          /\ Allowed(tables[i].rows[2])
          /\ tables[i].rows[1].fecha.day = tables[i].rows[2].fecha.day

(***************************************************************************)
(* C28: process_final validates the transformed files, clears the output   *)
(* directory, runs the consolidation and verifies the output, in this      *)
(* order, and ends at the first of these steps that fails; when the        *)
(* validation fails the output directory is as it was and the              *)
(* consolidation has not been started.                                     *)
(***************************************************************************)
\* A transformed file of the client is missing or cannot be read.
SomeFileMissing(files) ==
    \E i \in 1..Len(files) : ~(files[i].exists /\ files[i].readable)

\* process_final has returned False at the validation.
ValidationFailed == pc = "done" /\ result = "running" /\ argv = <<>>

\* The consolidation script has not run: nothing is loaded or computed.
NeverConsolidated ==
    /\ pets_filter = NoFilter
    /\ filter_folder = NoFolder
    /\ ent_idx = 1
    /\ all_dataframes = <<>>
    /\ consolidated_records = <<>>
    /\ final_df = <<>>
    /\ batch_files = <<>>
    /\ summary = <<>>

\* One step of process_final, as claimed.
StepInOrder ==
    /\ pc = "validate" =>
          /\ output_dir' = output_dir
          /\ NeverConsolidated'
          /\ IF SomeFileMissing(tables')
             THEN pc' = "done" /\ exit_code' = <<1>>
             ELSE pc' = "setup"
    /\ pc' = "setup" => pc = "validate"
    /\ pc = "setup" =>
          /\ pc' = "spawn"
          /\ output_dir' = {f \in output_dir : f.name.kind = "other"}
          /\ NeverConsolidated'
    /\ pc' = "spawn" => pc = "setup"
    /\ pc = "spawn" => pc' = "config" /\ UNCHANGED output_dir
    /\ pc' = "config" => pc = "spawn"
    /\ pc' = "returned" => pc \in {"load", "batch"} /\ result' # "running"
    /\ pc = "returned" =>
          /\ pc' = "done"
          /\ UNCHANGED output_dir
          /\ result # "ok" => exit_code' = <<1>>
          /\ result = "ok" =>
                exit_code' = IF \E f \in output_dir : f.name.kind = "batch"
                             THEN <<0>> ELSE <<1>>

C28_StepsInOrder ==
    /\ [][command = "final_processing" => StepInOrder]_vars
    /\ [](ValidationFailed =>
             /\ NeverConsolidated
             /\ SomeFileMissing(tables)
             /\ output_dir \in StaleDirectories
             /\ exit_code = <<1>>)

\* The validation has found a workbook that cannot be read: the command
\* has ended with 1, and the files of the earlier run are all there.
C28_Witness ==
    /\ command = "final_processing"
    /\ ValidationFailed
    /\ exit_code = <<1>>
    /\ output_dir = EarlierRun
    /\ \E i \in 1..Len(tables) : tables[i].exists /\ ~tables[i].readable
    /\ \E i \in 1..Len(tables) : tables[i].readable /\ tables[i].rows # <<>>

(***************************************************************************)
(* C29: the scripts of an entity are run in the order of its configured    *)
(* steps; a step is started only if every step before it has succeeded     *)
(* (exit code 0 and its expected file there); the first failure, timeout   *)
(* or missing script ends the pipeline of that entity; and process goes    *)
(* on to the pipelines of the entities that remain.                        *)
(***************************************************************************)
\* The step of the entry has succeeded, as the claim has it.
StepOk(entry) ==
    entry.script /\ entry.ended = "exit 0" /\ entry.expected_exists

\* Every configured step of the i-th entity has a script.
AllMapped(i) ==
    \A k \in 1..Len(pipeline_steps[i]) : pipeline_steps[i][k] \in MappedSteps

\* The entries of the i-th entity among the scripts run.
StepsOf(i) == SelectSeq(steps_run, LAMBDA entry : entry.entidad = i)

\* The pipeline of the i-th entity has run to its end without a failure.
RanThrough(i) ==
    /\ AllMapped(i)
    /\ Len(StepsOf(i)) = Len(pipeline_steps[i])
    /\ \A k \in 1..Len(StepsOf(i)) : StepOk(StepsOf(i)[k])

C29_PipelineOrder ==
    /\ \A n \in 1..Len(steps_run) :
          LET entry == steps_run[n]
          IN  /\ entry.step \in 1..Len(pipeline_steps[entry.entidad])
              /\ entry.name = pipeline_steps[entry.entidad][entry.step]
              /\ AllMapped(entry.entidad)
              /\ IF n > 1 /\ steps_run[n - 1].entidad = entry.entidad
                 THEN /\ entry.step = steps_run[n - 1].step + 1
                      /\ StepOk(steps_run[n - 1])
                 ELSE /\ entry.step = 1
                      /\ n > 1 => steps_run[n - 1].entidad < entry.entidad
    /\ \A i \in 1..Len(pipeline_results) : pipeline_results[i] <=> RanThrough(i)
    /\ (pc \in {"final", "done"} /\ pipeline_results # <<>>) =>
          /\ Len(pipeline_results) = Len(entities)
          /\ \A i \in 1..Len(entities) :
                AllMapped(i) => StepsOf(i) # <<>> /\ StepsOf(i)[1].step = 1

\* The second script of the first entity was stopped at the timeout and
\* its third was never started; the three scripts of the second entity
\* have run, the first of them after that failure.
C29_Witness ==
    /\ pc = "done"
    /\ Len(entities) = 2
    /\ pipeline_results = <<FALSE, TRUE>>
    /\ Len(pipeline_steps[1]) = 3
    /\ Len(StepsOf(1)) = 2
    /\ StepsOf(1)[2].ended = "timeout"
    /\ Len(StepsOf(2)) = 3

(***************************************************************************)
(* C30: process reports success exactly if, once the pipelines have run,   *)
(* the final transformed file of every selected entity exists; and it      *)
(* reports failure whenever the pipeline of an entity has failed in this   *)
(* run.                                                                    *)
(***************************************************************************)
\* The final transformed file of the i-th entity is in its directory.
FinalFileExists(i) == "import_transformed" \in generation[i]

C30_SuccessIffPipelinesSucceeded ==
    (pc = "done" /\ Len(pipeline_results) = Len(entities)) =>
        /\ result = "ok" <=> \A i \in 1..Len(entities) : FinalFileExists(i)
        /\ exit_code = <<0>> <=> result = "ok"
        /\ (\E i \in 1..Len(entities) : ~pipeline_results[i])
              => result = "failed"

====
